---- MODULE Spec2Model ----
(***************************************************************************)
(* A model of the VM translator of projects/07 (Parser, CodeWriter and the *)
(* driver), of the symbol resolution of the projects/06 assembler, and of  *)
(* the execution of the emitted assembly on the Hack machine.              *)
(*                                                                         *)
(* Text is modelled as sequences of one-character strings, so that string  *)
(* formatting (f-strings, str(int)), partition/split and substring search  *)
(* are computed as the code computes them.  An emitted line is a record:   *)
(* an A-instruction "@sym", a label definition "(sym)" or a C-instruction  *)
(* "dest=comp;jump".                                                       *)
(***************************************************************************)
EXTENDS Integers, Sequences, FiniteSets, TLC

VARIABLES
    writers,             \* the translator runs: per run its Parser (source, lines,
                         \* current_idx) and its CodeWriter (filename and counters),
                         \* its phase (start, translate, translated, empty, error)
                         \* and, per translated command, its kind and range in ROM
    files,               \* file system: path -> content
    mode,                \* Hack machine: idle, run, off
    rom,                 \* the assembled program (symbols resolved)
    pc, A, D, ram,       \* Hack machine: program counter, registers, data memory
    snap,                \* data memory as it was when each command was last entered
    cur,                 \* the command whose code is running from its start, or 0
    hist,                \* the commands run from start to end, in order, since the
                         \* last jump to an address that is no label
    steps                \* instructions executed so far

vars == <<writers, files, mode, rom, pc, A, D, ram, snap, cur, hist, steps>>

----------------------------------------------------------------------------
(* Text *)

s_push == <<"p","u","s","h">>
s_pop == <<"p","o","p">>
s_label == <<"l","a","b","e","l">>
s_goto == <<"g","o","t","o">>
s_if_goto == <<"i","f","-","g","o","t","o">>
s_function == <<"f","u","n","c","t","i","o","n">>
s_call == <<"c","a","l","l">>
s_return == <<"r","e","t","u","r","n">>
s_add == <<"a","d","d">>
s_sub == <<"s","u","b">>
s_neg == <<"n","e","g">>
s_eq == <<"e","q">>
s_gt == <<"g","t">>
s_lt == <<"l","t">>
s_and == <<"a","n","d">>
s_or == <<"o","r">>
s_not == <<"n","o","t">>
s_local == <<"l","o","c","a","l">>
s_argument == <<"a","r","g","u","m","e","n","t">>
s_temp == <<"t","e","m","p">>
s_this == <<"t","h","i","s">>
s_that == <<"t","h","a","t">>
s_pointer == <<"p","o","i","n","t","e","r">>
s_static == <<"s","t","a","t","i","c">>
s_constant == <<"c","o","n","s","t","a","n","t">>
s_SP == <<"S","P">>
s_LCL == <<"L","C","L">>
s_ARG == <<"A","R","G">>
s_THIS == <<"T","H","I","S">>
s_THAT == <<"T","H","A","T">>
s_TEMP == <<"T","E","M","P">>
s_R13 == <<"R","1","3">>
s_SCREEN == <<"S","C","R","E","E","N">>
s_KBD == <<"K","B","D">>
s_frame == <<"f","r","a","m","e">>
s_retAddr == <<"r","e","t","A","d","d","r">>
s_END == <<"E","N","D">>
s_TRUE == <<"T","R","U","E">>
s_ret == <<"$","r","e","t",".">>
s_vm == <<".","v","m">>
s_asm == <<".","a","s","m">>
s_slashes == <<"/","/">>

DigitChars == <<"0","1","2","3","4","5","6","7","8","9">>
Digits == {DigitChars[i] : i \in 1..10}
Upper == {"A","B","C","D","E","F","G","H","I","J","K","L","M",
          "N","O","P","Q","R","S","T","U","V","W","X","Y","Z"}
Lower == {"a","b","c","d","e","f","g","h","i","j","k","l","m",
          "n","o","p","q","r","s","t","u","v","w","x","y","z"}
Whitespace == {" ", "\t"}

DigitValue(c) == CHOOSE d \in 0..9 : DigitChars[d + 1] = c

\* str(n) for a non-negative integer
RECURSIVE Str(_)
Str(n) == IF n < 10 THEN <<DigitChars[n + 1]>>
          ELSE Str(n \div 10) \o <<DigitChars[(n % 10) + 1]>>

\* str.isdigit(): not empty and only digits
IsDigit(s) == Len(s) > 0 /\ \A i \in 1..Len(s) : s[i] \in Digits

\* int(s) for a text of digits
RECURSIVE ParseInt(_)
ParseInt(s) == IF Len(s) = 0 THEN 0
               ELSE 10 * ParseInt(SubSeq(s, 1, Len(s) - 1)) + DigitValue(s[Len(s)])

\* `w in s` (substring containment)
Contains(s, w) ==
    \E i \in 1..(Len(s) - Len(w) + 1) : SubSeq(s, i, i + Len(w) - 1) = w

StartsWith(s, w) == Len(s) >= Len(w) /\ SubSeq(s, 1, Len(w)) = w
EndsWith(s, w) == Len(s) >= Len(w) /\ SubSeq(s, Len(s) - Len(w) + 1, Len(s)) = w

\* s.count(c) > 0 for a character c
HasChar(s, c) == \E i \in 1..Len(s) : s[i] = c

\* s.partition(c)[0]: the text before the first c, all of s without one
PartitionHead(s, c) ==
    IF HasChar(s, c)
    THEN SubSeq(s, 1, (CHOOSE i \in 1..Len(s) :
                          s[i] = c /\ \A j \in 1..(i - 1) : s[j] # c) - 1)
    ELSE s

\* s.split(c)[-1]: the text after the last c, all of s without one
SplitLast(s, c) ==
    IF HasChar(s, c)
    THEN SubSeq(s, (CHOOSE i \in 1..Len(s) :
                       s[i] = c /\ \A j \in (i + 1)..Len(s) : s[j] # c) + 1, Len(s))
    ELSE s

\* s.strip()
RECURSIVE Strip(_)
Strip(s) == IF Len(s) = 0 THEN s
            ELSE IF s[1] \in Whitespace THEN Strip(Tail(s))
            ELSE IF s[Len(s)] \in Whitespace THEN Strip(SubSeq(s, 1, Len(s) - 1))
            ELSE s

\* s.split(): the words of s, separated by runs of whitespace
RECURSIVE SplitFrom(_, _, _)
SplitFrom(s, i, word) ==
    IF i > Len(s) THEN (IF Len(word) > 0 THEN <<word>> ELSE <<>>)
    ELSE IF s[i] \in Whitespace
         THEN (IF Len(word) > 0 THEN <<word>> ELSE <<>>) \o SplitFrom(s, i + 1, <<>>)
         ELSE SplitFrom(s, i + 1, Append(word, s[i]))

Split(s) == SplitFrom(s, 1, <<>>)

\* " ".join(words)
RECURSIVE Join(_)
Join(words) == IF Len(words) = 0 THEN <<>>
               ELSE IF Len(words) = 1 THEN words[1]
               ELSE words[1] \o <<" ">> \o Join(Tail(words))

----------------------------------------------------------------------------
(* Parser (VMTranslator.py) *)

Ok(v) == [err |-> "", val |-> v]
Raise(e) == [err |-> e, val |-> <<>>]

has_more_lines(ls, idx) == 0 <= idx /\ idx < Len(ls)

current_line(ls, idx) == Strip(ls[idx + 1])

skip_line(line) ==
    StartsWith(line, s_slashes)
    \/ (Len(line) > 0 /\ \A i \in 1..Len(line) : line[i] \in Whitespace)
    \/ line = <<>>

\* the index after advance(): one further, then past blank and comment lines
RECURSIVE skip_from(_, _)
skip_from(ls, idx) ==
    IF has_more_lines(ls, idx) /\ skip_line(current_line(ls, idx))
    THEN skip_from(ls, idx + 1)
    ELSE idx

advance(ls, idx) == skip_from(ls, idx + 1)

command_type(line) ==
    IF Contains(line, s_push) THEN "C_PUSH"
    ELSE IF Contains(line, s_pop) THEN "C_POP"
    ELSE IF Contains(line, s_label) THEN "C_LABEL"
    ELSE IF \E x \in {s_eq, s_gt, s_lt, s_and, s_or, s_not} : Contains(line, x)
         THEN "C_ARITHMETIC"
    ELSE IF Contains(line, s_if_goto) THEN "C_IF"
    ELSE IF Contains(line, s_goto) THEN "C_GOTO"
    ELSE IF \E x \in {s_add, s_sub, s_neg} : Contains(line, x) THEN "C_ARITHMETIC"
    ELSE IF Contains(line, s_return) THEN "C_RETURN"
    ELSE IF Contains(line, s_call) THEN "C_CALL"
    ELSE IF Contains(line, s_function) THEN "C_FUNCTION"
    ELSE "ValueError"

LabelFirst == Upper \cup Lower \cup {"_", ".", "$", ":"}

is_valid_label_name(label) ==
    /\ Len(label) > 0
    /\ label[1] \in LabelFirst
    /\ \A i \in 2..Len(label) : label[i] \in LabelFirst \cup Digits
    /\ label # s_END

_basename(fname) == SplitLast(PartitionHead(fname, "."), "/")

\* a label left as the source spells it
scoped_label_bare(fname, label) == label

scoped_label(fname, label) == _basename(fname) \o <<".">> \o label

\* an arg1 that takes the second word whatever the command is
arg1_unchecked(line) ==
    LET command == command_type(line)
        words == Split(line)
    IN  IF command = "ValueError" THEN Raise("ValueError")
        ELSE IF command = "C_ARITHMETIC"
             THEN (IF Len(words) >= 1 THEN Ok(words[1]) ELSE Raise("IndexError"))
             ELSE (IF Len(words) >= 2 THEN Ok(words[2]) ELSE Raise("IndexError"))

arg1(line) ==
    LET command == command_type(line)
        words == Split(line)
    IN  IF command = "ValueError" THEN Raise("ValueError")
        ELSE IF command = "C_RETURN" THEN Raise("AssertionError")
        ELSE IF command = "C_ARITHMETIC"
             THEN (IF Len(words) >= 1 THEN Ok(words[1]) ELSE Raise("IndexError"))
             ELSE (IF Len(words) >= 2 THEN Ok(words[2]) ELSE Raise("IndexError"))

arg2(line) ==
    LET command == command_type(line)
        words == Split(line)
    IN  IF command = "ValueError" THEN Raise("ValueError")
        ELSE IF command \notin {"C_PUSH", "C_POP", "C_FUNCTION", "C_CALL"}
             THEN Raise("AssertionError")
        ELSE IF Len(words) < 3 THEN Raise("IndexError")
        ELSE IF ~IsDigit(words[3]) THEN Raise("ValueError")
        ELSE Ok(ParseInt(words[3]))

----------------------------------------------------------------------------
(* CodeWriter (VMTranslator.py): the text each operation appends *)

AI(sym) == [t |-> "A", sym |-> sym, dest |-> "", comp |-> "", jump |-> ""]
LI(sym) == [t |-> "L", sym |-> sym, dest |-> "", comp |-> "", jump |-> ""]
CI(dest, comp, jump) == [t |-> "C", sym |-> <<>>, dest |-> dest, comp |-> comp, jump |-> jump]

\* _SEGMENTS: segment name -> base symbol
SegmentNames == {s_local, s_argument, s_temp, s_this, s_that}

\* a table that gives argument the base of local and that the base of this
_SEGMENTS_shared(segment) ==
    CASE segment = s_local -> s_LCL
      [] segment = s_argument -> s_LCL
      [] segment = s_temp -> s_TEMP
      [] segment = s_this -> s_THIS
      [] segment = s_that -> s_THIS

_SEGMENTS(segment) ==
    CASE segment = s_local -> s_LCL
      [] segment = s_argument -> s_ARG
      [] segment = s_temp -> s_TEMP
      [] segment = s_this -> s_THIS
      [] segment = s_that -> s_THAT

\* an address computation that takes any pointer index but 0 for THAT and an
\* unknown segment for local
_compute_target_address_lenient(fname, segment, index, register) ==
    IF segment = s_pointer
    THEN (IF index = 0 THEN Ok(<<AI(s_THIS)>>) ELSE Ok(<<AI(s_THAT)>>))
    ELSE IF segment = s_static
    THEN Ok(<<AI(scoped_label(fname, Str(index)))>>)
    ELSE IF segment = s_temp
    THEN Ok(<<AI(Str(index)), CI("D", "A", ""), AI(<<"5">>), CI(register, "A+D", "")>>)
    ELSE Ok(<<AI(Str(index)), CI("D", "A", ""),
              AI(IF segment \in SegmentNames THEN _SEGMENTS(segment) ELSE s_LCL),
              CI(register, "M+D", "")>>)

_compute_target_address(fname, segment, index, register) ==
    IF ~(segment \in SegmentNames \/ segment = s_pointer \/ segment = s_static)
    THEN Raise("AssertionError")
    ELSE IF segment = s_pointer
    THEN (IF index = 0 THEN Ok(<<AI(s_THIS)>>)
          ELSE IF index = 1 THEN Ok(<<AI(s_THAT)>>)
          ELSE Raise("ValueError"))
    ELSE IF segment = s_static
    THEN Ok(<<AI(scoped_label(fname, Str(index)))>>)
    ELSE IF segment = s_temp
    THEN Ok(<<AI(Str(index)), CI("D", "A", ""), AI(<<"5">>), CI(register, "A+D", "")>>)
    ELSE Ok(<<AI(Str(index)), CI("D", "A", ""),
              AI(_SEGMENTS(segment)), CI(register, "M+D", "")>>)

_pop_cmds == <<AI(s_SP), CI("M", "M-1", ""), CI("A", "M", ""), CI("D", "M", "")>>

\* a push that stores at the incremented stack pointer
_push_cmds_above_top ==
    <<AI(s_SP), CI("M", "M+1", ""), CI("A", "M", ""), CI("M", "D", "")>>

_push_cmds == <<AI(s_SP), CI("M", "M+1", ""), CI("A", "M-1", ""), CI("M", "D", "")>>

\* a pop to constant that does pop
write_push_pop_drops_top(fname, command, segment, index) ==
    IF command = "C_POP"
    THEN IF segment = s_constant THEN Ok(_pop_cmds)
         ELSE LET target == _compute_target_address(fname, segment, index, "D")
              IN  IF target.err # "" THEN target
                  ELSE Ok(target.val \o <<AI(s_R13), CI("M", "D", "")>> \o _pop_cmds
                          \o <<AI(s_R13), CI("A", "M", ""), CI("M", "D", "")>>)
    ELSE IF segment = s_constant
         THEN Ok(<<AI(Str(index)), CI("D", "A", "")>> \o _push_cmds)
         ELSE LET target == _compute_target_address(fname, segment, index, "A")
              IN  IF target.err # "" THEN target
                  ELSE Ok(target.val \o <<CI("D", "M", "")>> \o _push_cmds)

write_push_pop(fname, command, segment, index) ==
    IF command = "C_POP"
    THEN IF segment = s_constant THEN Ok(<<>>)
         ELSE LET target == _compute_target_address(fname, segment, index, "D")
              IN  IF target.err # "" THEN target
                  ELSE Ok(target.val \o <<AI(s_R13), CI("M", "D", "")>> \o _pop_cmds
                          \o <<AI(s_R13), CI("A", "M", ""), CI("M", "D", "")>>)
    ELSE IF segment = s_constant
         THEN Ok(<<AI(Str(index)), CI("D", "A", "")>> \o _push_cmds)
         ELSE LET target == _compute_target_address(fname, segment, index, "A")
              IN  IF target.err # "" THEN target
                  ELSE Ok(target.val \o <<CI("D", "M", "")>> \o _push_cmds)

TrueLabel(counter) == s_TRUE \o Str(counter)

\* sub with its operands exchanged
add_sub_comp_swapped(command) == IF command = s_add THEN "M+D" ELSE "D-M"

\* the instruction that combines the operands of add and sub
add_sub_comp(command) == IF command = s_add THEN "M+D" ELSE "M-D"

\* jumps that are also taken on a difference of zero
compare_jump_or_equal(command) ==
    IF command = s_eq THEN "JEQ" ELSE IF command = s_lt THEN "JGE" ELSE "JLE"

\* jumps named after the comparison, for a difference taken the other way
compare_jump_by_name(command) ==
    IF command = s_eq THEN "JEQ" ELSE IF command = s_lt THEN "JLT" ELSE "JGT"

\* the jump to the true label of a comparison
compare_jump(command) ==
    IF command = s_eq THEN "JEQ" ELSE IF command = s_lt THEN "JGT" ELSE "JLT"

write_arithmetic(fname, counter, command) ==
    LET pop2 == <<AI(s_SP), CI("M", "M-1", ""), CI("A", "M", ""), CI("D", "M", "")>>
        scoped_end == scoped_label(fname, s_END \o Str(counter))
        jump == compare_jump(command)
        unary == <<AI(s_SP), CI("A", "M-1", ""), CI("D", "M", ""), AI(<<"0">>),
                   CI("D", "A-D", "")>>
        store == <<AI(s_SP), CI("A", "M-1", ""), CI("M", "D", "")>>
    IN  IF command \in {s_add, s_sub}
        THEN Ok(pop2 \o <<CI("A", "A-1", ""), CI("M", add_sub_comp(command), "")>>)
        ELSE IF command = s_neg THEN Ok(unary \o store)
        ELSE IF command \in {s_eq, s_lt, s_gt}
        THEN Ok(pop2 \o <<CI("A", "A-1", ""), CI("D", "D-M", ""),
                          AI(TrueLabel(counter)), CI("", "D", jump),
                          AI(s_SP), CI("A", "M-1", ""), CI("M", "0", ""),
                          AI(scoped_end), CI("", "0", "JMP"),
                          LI(TrueLabel(counter)),
                          AI(s_SP), CI("A", "M-1", ""), CI("M", "-1", ""),
                          LI(scoped_end)>>)
        ELSE IF command = s_and
        THEN Ok(pop2 \o <<CI("A", "A-1", ""), CI("M", "M&D", ""), LI(scoped_end)>>)
        ELSE IF command = s_or
        THEN Ok(pop2 \o <<CI("A", "A-1", ""), CI("M", "M|D", ""), LI(scoped_end)>>)
        ELSE IF command = s_not
        THEN Ok(unary \o <<CI("D", "D-1", "")>> \o store \o <<LI(scoped_end)>>)
        ELSE Raise("ValueError")

write_label(location_name) == <<LI(location_name)>>

write_goto(location_name) == <<AI(location_name), CI("", "0", "JMP")>>

\* an if-goto that jumps when the popped word is 0
write_if_goto_on_zero(location_name) ==
    _pop_cmds \o <<AI(location_name), CI("", "D", "JEQ")>>

write_if_goto(location_name) ==
    _pop_cmds \o <<AI(location_name), CI("", "D", "JNE")>>

RECURSIVE Repeat(_, _)
Repeat(code, n) == IF n <= 0 THEN <<>> ELSE code \o Repeat(code, n - 1)

\* a prologue that leaves the last local as it finds it
write_function_one_short(fname, function_name, num_vars) ==
    write_label(scoped_label(fname, function_name))
    \o Repeat(write_push_pop(fname, "C_PUSH", s_constant, 0).val, num_vars - 1)

write_function(fname, function_name, num_vars) ==
    write_label(scoped_label(fname, function_name))
    \o Repeat(write_push_pop(fname, "C_PUSH", s_constant, 0).val, num_vars)

\* the return label of the call numbered `counter`
return_addr(fname, counter, function_name) ==
    scoped_label(fname, function_name) \o s_ret \o Str(counter)

\* what one saved pointer's push appends
save_one(fname, segment, idx) ==
    _compute_target_address(fname, segment, idx, "D").val \o _push_cmds

write_call(fname, counter, function_name, num_args) ==
    LET save_frame == save_one(fname, s_local, 0) \o save_one(fname, s_argument, 0)
                      \o save_one(fname, s_pointer, 0) \o save_one(fname, s_pointer, 1)
        set_arg == <<AI(s_SP), CI("D", "M", ""), AI(<<"5">>), CI("D", "D-A", ""),
                     AI(Str(num_args)), CI("D", "D-A", ""), AI(s_ARG), CI("M", "D", "")>>
        set_lcl == <<AI(s_SP), CI("D", "M", ""), AI(s_LCL), CI("M", "D", "")>>
    IN  save_frame \o set_arg \o set_lcl \o write_goto(function_name)
        \o write_label(return_addr(fname, counter, function_name))

\* a restore that reads one cell too low
restore_one_shifted(offset, segment) ==
    <<AI(s_frame), CI("D", "M", ""), AI(Str(offset + 1)), CI("A", "D-A", ""),
      CI("D", "M", ""), AI(segment), CI("M", "D", "")>>

restore_one(offset, segment) ==
    <<AI(s_frame), CI("D", "M", ""), AI(Str(offset)), CI("A", "D-A", ""),
      CI("D", "M", ""), AI(segment), CI("M", "D", "")>>

write_return(fname) ==
    LET address_LCL == _compute_target_address(fname, s_local, 0, "A").val
    IN  address_LCL \o <<CI("D", "A", ""), AI(s_frame), CI("M", "D", "")>>
        \o <<AI(<<"5">>), CI("D", "D-A", ""), AI(s_retAddr), CI("M", "D", "")>>
        \o _pop_cmds \o <<AI(s_ARG), CI("A", "M", ""), CI("M", "D", "")>>
        \o <<AI(s_ARG), CI("D", "M+1", ""), AI(s_SP), CI("M", "D", "")>>
        \o restore_one(1, s_THAT) \o restore_one(2, s_THIS)
        \o restore_one(3, s_ARG) \o restore_one(4, s_LCL)
        \o write_goto(s_retAddr)

write_end_loop(fname) ==
    write_label(scoped_label(fname, s_END)) \o write_goto(scoped_label(fname, s_END))

----------------------------------------------------------------------------
(* Assembler (assembler.py): symbol resolution of the emitted text *)

RName(n) == <<"R">> \o Str(n)

\* Parser.__init__: the predefined symbols
symbol_table ==
    [s \in {s_SP, s_LCL, s_ARG, s_THIS, s_THAT, s_SCREEN, s_KBD}
           \cup {RName(n) : n \in 0..15} |->
        CASE s = s_SP -> 0
          [] s = s_LCL -> 1
          [] s = s_ARG -> 2
          [] s = s_THIS -> 3
          [] s = s_THAT -> 4
          [] s = s_SCREEN -> 16384
          [] s = s_KBD -> 24576
          [] OTHER -> CHOOSE n \in 0..15 : RName(n) = s]

\* first pass: every (XXX) line is given the index of the next instruction,
\* that is the number of instructions before it; a later definition of the
\* same symbol replaces an earlier one
Labels(ls) == {ls[i].sym : i \in {j \in 1..Len(ls) : ls[j].t = "L"}}

fill_symbol_table(ls, table) ==
    [s \in DOMAIN table \cup Labels(ls) |->
        IF s \in Labels(ls)
        THEN LET last == CHOOSE i \in 1..Len(ls) :
                            /\ ls[i].t = "L" /\ ls[i].sym = s
                            /\ \A j \in (i + 1)..Len(ls) : ~(ls[j].t = "L" /\ ls[j].sym = s)
             IN  Cardinality({j \in 1..last : ls[j].t # "L"})
        ELSE table[s]]

FirstFreeRegister == 16

\* second pass: every unknown symbol of an A-instruction is given the next
\* free register, from 16 upward, in the order of first use
FirstUse(ls, s) == CHOOSE i \in 1..Len(ls) :
                      /\ ls[i].t = "A" /\ ls[i].sym = s
                      /\ \A j \in 1..(i - 1) : ~(ls[j].t = "A" /\ ls[j].sym = s)

second_pass(ls, table) ==
    LET unknown == {ls[i].sym : i \in {j \in 1..Len(ls) :
                        ls[j].t = "A" /\ ~IsDigit(ls[j].sym) /\ ls[j].sym \notin DOMAIN table}}
    IN  [s \in DOMAIN table \cup unknown |->
            IF s \in DOMAIN table THEN table[s]
            ELSE FirstFreeRegister
                 + Cardinality({u \in unknown : FirstUse(ls, u) < FirstUse(ls, s)})]

SymbolTable(ls) == second_pass(ls, fill_symbol_table(ls, symbol_table))

\* the instructions of the program, labels dropped and symbols replaced by
\* their numbers (the mnemonics of a C-instruction are kept as they are)
Assemble(ls) ==
    LET table == SymbolTable(ls)
        instr == SelectSeq(ls, LAMBDA l : l.t # "L")
    IN  [i \in 1..Len(instr) |->
            IF instr[i].t = "A"
            THEN [t |-> "A", dest |-> "", comp |-> "", jump |-> "",
                  val |-> IF IsDigit(instr[i].sym) THEN ParseInt(instr[i].sym)
                          ELSE table[instr[i].sym]]
            ELSE [t |-> "C", dest |-> instr[i].dest, comp |-> instr[i].comp,
                  jump |-> instr[i].jump, val |-> 0]]

\* number of instructions (the lines that are not label definitions)
InstructionCount(ls) == Len(SelectSeq(ls, LAMBDA l : l.t # "L"))

----------------------------------------------------------------------------
(* The Hack machine: the meaning of the mnemonics of the assembler's tables *)

WordModulus == 65536

Wrap(n) == n % WordModulus

\* the signed reading of a word
Signed(w) == IF w >= WordModulus \div 2 THEN w - WordModulus ELSE w

RECURSIVE BitAnd(_, _)
BitAnd(x, y) == IF x = 0 \/ y = 0 THEN 0
                ELSE (x % 2) * (y % 2) + 2 * BitAnd(x \div 2, y \div 2)

RECURSIVE BitOr(_, _)
BitOr(x, y) == IF x = 0 THEN y
               ELSE IF y = 0 THEN x
               ELSE (IF x % 2 = 1 \/ y % 2 = 1 THEN 1 ELSE 0)
                    + 2 * BitOr(x \div 2, y \div 2)

\* a cell that was never written holds 0
Read(mem, addr) == IF addr \in DOMAIN mem THEN mem[addr] ELSE 0

Write(mem, addr, value) ==
    [k \in DOMAIN mem \cup {addr} |-> IF k = addr THEN value ELSE mem[k]]

\* the keys of the assembler's comp table and of its jump table
_COMP_CODES ==
    {"", "0", "1", "-1", "D", "A", "M", "!D", "!A", "!M", "-D", "-A", "-M",
     "D+1", "A+1", "M+1", "D-1", "A-1", "M-1", "D+A", "D+M", "D-A", "D-M",
     "A-D", "M-D", "D&A", "D&M", "D|A", "D|M"}

_JUMP_CODES == {"", "JGT", "JEQ", "JGE", "JLT", "JNE", "JLE", "JMP"}

\* Code.comp and Code.jump: the lookup fails on a mnemonic that is not a key
Encodable(line) == line.comp \in _COMP_CODES /\ line.jump \in _JUMP_CODES

\* the value of a comp mnemonic on the machine, whichever way its operands
\* are written
CompValue(comp, a, d, m) ==
    CASE comp = "0" -> 0
      [] comp = "1" -> 1
      [] comp = "-1" -> Wrap(-1)
      [] comp = "D" -> d
      [] comp = "A" -> a
      [] comp = "M" -> m
      [] comp = "D+1" -> Wrap(d + 1)
      [] comp = "A+1" -> Wrap(a + 1)
      [] comp = "M+1" -> Wrap(m + 1)
      [] comp = "D-1" -> Wrap(d - 1)
      [] comp = "A-1" -> Wrap(a - 1)
      [] comp = "M-1" -> Wrap(m - 1)
      [] comp \in {"D+A", "A+D"} -> Wrap(d + a)
      [] comp \in {"D+M", "M+D"} -> Wrap(d + m)
      [] comp = "D-A" -> Wrap(d - a)
      [] comp = "D-M" -> Wrap(d - m)
      [] comp = "A-D" -> Wrap(a - d)
      [] comp = "M-D" -> Wrap(m - d)
      [] comp \in {"D&A", "A&D"} -> BitAnd(d, a)
      [] comp \in {"D&M", "M&D"} -> BitAnd(d, m)
      [] comp \in {"D|A", "A|D"} -> BitOr(d, a)
      [] comp \in {"D|M", "M|D"} -> BitOr(d, m)

\* _JUMP_CODES: whether a jump mnemonic jumps on the computed value
JumpTaken(jump, value) ==
    CASE jump = "" -> FALSE
      [] jump = "JGT" -> Signed(value) > 0
      [] jump = "JEQ" -> value = 0
      [] jump = "JGE" -> Signed(value) >= 0
      [] jump = "JLT" -> Signed(value) < 0
      [] jump = "JNE" -> value # 0
      [] jump = "JLE" -> Signed(value) <= 0
      [] jump = "JMP" -> TRUE

----------------------------------------------------------------------------
(* The driver (__main__ of VMTranslator.py) *)

\* s.replace(old, new)
RECURSIVE Replace(_, _, _)
Replace(s, old, new) ==
    IF Len(s) = 0 THEN s
    ELSE IF StartsWith(s, old)
         THEN new \o Replace(SubSeq(s, Len(old) + 1, Len(s)), old, new)
         ELSE <<s[1]>> \o Replace(Tail(s), old, new)

Lowercase(c) == c \in Lower

\* the assertions of Parser.__init__
ParserAccepts(src) == EndsWith(src, s_vm) /\ ~Lowercase(src[1])

Emit(kind, out, ac, cc) == [err |-> "", kind |-> kind, out |-> out, ac |-> ac, cc |-> cc]
Fail(e, ac, cc) == [err |-> e, kind |-> "", out |-> <<>>, ac |-> ac, cc |-> cc]

\* one iteration of the driver's loop on the current line: what is appended
\* to the output and the counters afterwards, or the error raised
Dispatch(fname, ac, cc, line) ==
    LET command == command_type(line)
        first == arg1(line)
        second == arg2(line)
    IN  IF command = "ValueError" THEN Fail("ValueError", ac, cc)
        ELSE IF command \in {"C_POP", "C_PUSH"}
        THEN IF second.err # "" THEN Fail(second.err, ac, cc)
             ELSE IF first.err # "" THEN Fail(first.err, ac, cc)
             ELSE LET w == write_push_pop(fname, command, first.val, second.val)
                  IN  IF w.err # "" THEN Fail(w.err, ac, cc)
                      ELSE Emit(command, w.val, ac, cc)
        ELSE IF command \in {"C_LABEL", "C_GOTO", "C_IF"}
        THEN IF first.err # "" THEN Fail(first.err, ac, cc)
             ELSE LET scope_lab == scoped_label(fname, first.val)
                  IN  IF ~is_valid_label_name(scope_lab) THEN Fail("ValueError", ac, cc)
                      ELSE IF command = "C_LABEL"
                           THEN Emit(command, write_label(scope_lab), ac, cc)
                      ELSE IF command = "C_GOTO"
                           THEN Emit(command, write_goto(scope_lab), ac, cc)
                      ELSE Emit(command, write_if_goto(scope_lab), ac, cc)
        ELSE IF command = "C_ARITHMETIC"
        THEN IF first.err # "" THEN Fail(first.err, ac, cc)
             ELSE LET w == write_arithmetic(fname, ac, first.val)
                  IN  IF w.err # "" THEN Fail(w.err, ac, cc)
                      ELSE Emit(command, w.val, ac + 1, cc)
        ELSE IF command = "C_FUNCTION"
        THEN IF second.err # "" THEN Fail(second.err, ac, cc)
             ELSE IF first.err # "" THEN Fail(first.err, ac, cc)
             ELSE Emit(command, write_function(fname, first.val, second.val), ac, cc)
        ELSE IF command = "C_CALL"
        THEN IF second.err # "" THEN Fail(second.err, ac, cc)
             ELSE IF first.err # "" THEN Fail(first.err, ac, cc)
             ELSE Emit(command, write_call(fname, cc, first.val, second.val), ac, cc + 1)
        ELSE Emit(command, write_return(fname), ac, cc)

\* a translated command: its kind, its line, the lines first+1..last of the
\* output that it appended and the addresses from..to-1 of its instructions
Mark(kind, line, out, added) ==
    [kind |-> kind, line |-> line, first |-> Len(out), last |-> Len(out \o added),
     from |-> InstructionCount(out), to |-> InstructionCount(out \o added)]

\* a translated command with the counters before and after it
Counted(mark, self, ac, cc) ==
    [kind |-> mark.kind, line |-> mark.line, first |-> mark.first, last |-> mark.last,
     from |-> mark.from, to |-> mark.to,
     counters_before |-> <<self.arithmetic_counter, self.call_counter>>,
     counters |-> <<ac, cc>>]

\* a file of the file system, and the file system after a write
Content(fs, path) == IF path \in DOMAIN fs THEN fs[path] ELSE <<>>
Put(fs, path, content) ==
    [q \in DOMAIN fs \cup {path} |-> IF q = path THEN content ELSE fs[q]]

\* one run of the translator: its Parser and its CodeWriter
Translator(src, ls) ==
    [source |-> src, lines |-> ls, current_idx |-> 0, filename |-> <<>>,
     arithmetic_counter |-> 0, call_counter |-> 0, phase |-> "start",
     marks |-> <<>>, runs |-> 0]

\* a reset that leaves the counters as they are
reset_keeps_counters(self) == self

\* CodeWriter.reset: the counters (the file is truncated by the caller below)
reset(self) == [self EXCEPT !.arithmetic_counter = 0, !.call_counter = 0]

\* Parser(source), the empty-file exit, CodeWriter(asm_filename) and the skip
\* of a leading comment line
Construct(i) ==
    LET self == writers[i]
        asm_filename == Replace(self.source, s_vm, s_asm)
    IN  IF ~ParserAccepts(self.source)
        THEN /\ writers' = [writers EXCEPT ![i].phase = "error"]
             /\ UNCHANGED files
        ELSE IF ~has_more_lines(self.lines, 0)
        THEN /\ writers' = [writers EXCEPT ![i].phase = "empty"]
             /\ UNCHANGED files
        ELSE /\ writers' = [writers EXCEPT ![i] =
                   [reset(self) EXCEPT
                       !.phase = "translate",
                       !.filename = asm_filename,
                       !.marks = <<>>,
                       !.runs = self.runs + 1,
                       !.current_idx = IF skip_line(current_line(self.lines, 0))
                                       THEN advance(self.lines, 0) ELSE 0]]
             /\ files' = Put(files, asm_filename, <<>>)

\* the translator is started on its source file
DriverStart(i) ==
    /\ writers[i].phase = "start"
    /\ Construct(i)
    /\ UNCHANGED <<mode, rom, pc, A, D, ram, snap, cur, hist, steps>>

MaxRuns == 2

\* the translator is started again on the same source file, with a new
\* Parser and a new CodeWriter
DriverAgain(i) ==
    /\ writers[i].phase = "translated"
    /\ writers[i].runs < MaxRuns
    /\ mode = "idle"
    /\ Construct(i)
    /\ UNCHANGED <<mode, rom, pc, A, D, ram, snap, cur, hist, steps>>

\* one iteration of `while parser.has_more_lines()`
DriverStep(i) ==
    /\ writers[i].phase = "translate"
    /\ has_more_lines(writers[i].lines, writers[i].current_idx)
    /\ LET self == writers[i]
           line == current_line(self.lines, self.current_idx)
           written == Content(files, self.filename)
           r == Dispatch(self.filename, self.arithmetic_counter, self.call_counter, line)
       IN  IF r.err # ""
           THEN /\ writers' = [writers EXCEPT ![i].phase = "error"]
                /\ UNCHANGED files
           ELSE /\ files' = Put(files, self.filename, written \o r.out)
                /\ writers' = [writers EXCEPT ![i] =
                      [self EXCEPT
                          !.arithmetic_counter = r.ac,
                          !.call_counter = r.cc,
                          !.marks = Append(self.marks,
                                 Counted(Mark(r.kind, line, written, r.out),
                                         self, r.ac, r.cc)),
                          !.current_idx = advance(self.lines, self.current_idx)]]
    /\ UNCHANGED <<mode, rom, pc, A, D, ram, snap, cur, hist, steps>>

\* writer.write_end_loop() after the last line
DriverEnd(i) ==
    /\ writers[i].phase = "translate"
    /\ ~has_more_lines(writers[i].lines, writers[i].current_idx)
    /\ LET self == writers[i]
           written == Content(files, self.filename)
           added == write_end_loop(self.filename)
       IN  /\ files' = Put(files, self.filename, written \o added)
           /\ writers' = [writers EXCEPT ![i] =
                 [self EXCEPT
                     !.marks = Append(self.marks,
                                 Counted(Mark("END", <<>>, written, added), self,
                                         self.arithmetic_counter, self.call_counter)),
                     !.phase = "translated"]]
    /\ UNCHANGED <<mode, rom, pc, A, D, ram, snap, cur, hist, steps>>

\* the translator whose output is assembled and run
lines == writers[1].lines
filename == writers[1].filename
marks == writers[1].marks
output == Content(files, filename)

----------------------------------------------------------------------------
(* Running the translated program *)

MaxSteps == 150

InIdleLoop(p) == p >= marks[Len(marks)].from /\ p < marks[Len(marks)].to

\* the command whose first instruction is at address p, or 0
Entered(p) ==
    LET starts == {k \in 1..Len(marks) : marks[k].from = p /\ marks[k].to > p}
    IN  IF starts = {} THEN 0 ELSE CHOOSE k \in starts : TRUE

\* the addresses the labels of the output stand for
LabelAddresses ==
    {fill_symbol_table(output, symbol_table)[s] : s \in Labels(output)}

Interior(k, p) == k # 0 /\ marks[k].from < p /\ p < marks[k].to

\* the value the current C-instruction computes
Computed == CompValue(rom[pc + 1].comp, A, D, Read(ram, A))

\* the address of the instruction executed after the current one
NextPc ==
    IF rom[pc + 1].t = "C" /\ JumpTaken(rom[pc + 1].jump, Computed) THEN A ELSE pc + 1

\* the assembler's output is loaded and the machine starts at address 0
LoadProgram ==
    /\ mode = "idle"
    /\ writers[1].phase = "translated"
    /\ rom' = Assemble(output)
    /\ pc' = 0
    /\ snap' = [k \in 1..Len(marks) |-> ram]
    /\ cur' = Entered(0)
    /\ mode' = "run"
    /\ UNCHANGED <<writers, files, A, D, ram, steps, hist>>

\* one instruction
Step ==
    /\ mode = "run"
    /\ pc < Len(rom)
    /\ steps < MaxSteps
    /\ LET ins == rom[pc + 1]
           value == Computed
           A2 == IF ins.t = "A" THEN ins.val
                 ELSE IF ins.dest = "A" THEN value ELSE A
           D2 == IF ins.t = "C" /\ ins.dest = "D" THEN value ELSE D
           ram2 == IF ins.t = "C" /\ ins.dest = "M" THEN Write(ram, A, value) ELSE ram
           pc2 == NextPc
       IN  /\ A' = A2
           /\ D' = D2
           /\ ram' = ram2
           /\ pc' = pc2
           /\ snap' = [k \in DOMAIN snap |-> IF marks[k].from = pc2 THEN ram2 ELSE snap[k]]
           /\ LET proper == pc2 = pc + 1 \/ pc2 \in LabelAddresses
              IN  /\ cur' = IF Entered(pc2) # 0 THEN Entered(pc2)
                            ELSE IF proper /\ Interior(cur, pc2) THEN cur ELSE 0
                  /\ hist' = IF ~proper THEN <<>>
                             ELSE IF cur # 0 /\ ~Interior(cur, pc2) /\ marks[cur].kind # "END"
                                  THEN Append(hist, cur)
                             ELSE hist
           /\ steps' = IF InIdleLoop(pc) THEN steps ELSE steps + 1
    /\ UNCHANGED <<writers, files, mode, rom>>

\* a jump to an address after the last instruction leaves the program
Leave ==
    /\ mode = "run"
    /\ pc >= Len(rom)
    /\ mode' = "off"
    /\ UNCHANGED <<writers, files, rom, pc, A, D, ram, snap, cur, hist, steps>>

----------------------------------------------------------------------------
(* The programs and the initial memories of the runs *)

MaxArgs == 2
MaxLocals == 1

s_Main_vm == <<"M","a","i","n">> \o s_vm
s_Main_g == <<"M","a","i","n",".","g">>
s_g == <<"g">>
s_f == <<"f">>
s_L == <<"L">>

\* constants a program may push, and words a memory cell may hold
Constants == {0, 1, 17, 32767}
Words == {0, 1, 2, 32767, 32768, 65535}
Operators == {s_add, s_sub, s_neg, s_eq, s_gt, s_lt, s_and, s_or, s_not}

PushConstant(c) == Join(<<s_push, s_constant, Str(c)>>)
PopLocal0 == Join(<<s_pop, s_local, <<"0">>>>)

\* data memory with the five pointers set and the given cells loaded
Memory(sp, lcl, arg, this, that, cells) ==
    [a \in 0..4 \cup DOMAIN cells |->
        IF a \in DOMAIN cells THEN cells[a]
        ELSE CASE a = 0 -> sp [] a = 1 -> lcl [] a = 2 -> arg [] a = 3 -> this
               [] a = 4 -> that]

\* cells base, base+1, ... holding the values of a sequence
Cells(base, values) == [a \in base..(base + Len(values) - 1) |-> values[a - base + 1]]

Merge(f, g) == [a \in DOMAIN f \cup DOMAIN g |-> IF a \in DOMAIN f THEN f[a] ELSE g[a]]

Run(ls, mem) == [lines |-> ls, ram |-> mem]

\* push constant c; pop local 0
RunsPushPop ==
    { Run(<<PushConstant(c), PopLocal0>>,
          Memory(sp, lcl, 400, 3000, 4000, Merge(Cells(lcl, <<999>>), Cells(sp - 1, <<555, 666>>)))) :
        c \in Constants, sp \in {256, 261}, lcl \in {256, 300} }

\* one operator on a stack holding ..., 4242, x, y
RunsArithmetic ==
    { Run(<<op>>, Memory(259, 300, 400, 3000, 4000, Cells(256, <<4242, x, y>>))) :
        op \in Operators, x \in Words, y \in Words }

\* push constant x; push constant y; comparison
RunsCompare ==
    { Run(<<PushConstant(x), PushConstant(y), op>>,
          Memory(256, 300, 400, 3000, 4000, Cells(255, <<4242>>))) :
        op \in {s_eq, s_gt, s_lt}, x \in Constants, y \in Constants }

RECURSIVE PushArgs(_)
PushArgs(n) == IF n = 0 THEN <<>> ELSE PushArgs(n - 1) \o <<PushConstant(10 + n)>>

\* n arguments pushed, a call, and the callee: its prologue, a body that
\* pushes one value, and return
RunsCall ==
    { Run(PushArgs(n) \o <<Join(<<s_call, target, Str(n)>>),
                           Join(<<s_function, s_g, Str(k)>>),
                           PushConstant(v), <<"r","e","t","u","r","n">>>>,
          Memory(256, 300, 400, 3000, 4000, Cells(255, <<4242>>))) :
        n \in 0..MaxArgs, k \in 0..MaxLocals, target \in {s_Main_g, s_g}, v \in {77} }

\* a callee's body and return, run in a frame that was built beforehand:
\* n arguments, the return address 1000 and the caller's pointers 1001..1004
RunsReturn ==
    { Run(<<PushConstant(v), <<"r","e","t","u","r","n">>>>,
          Memory(317, 317, 312 - n, 3010, 4010,
                 Cells(312 - n, PushArgs(n) \o <<1000, 1001, 1002, 1003, 1004>>))) :
        n \in 0..MaxArgs, v \in {77, 0} }

\* branches
RunsBranch ==
    { Run(ls, Memory(257, 300, 400, 3000, 4000, Cells(256, <<b>>))) :
        ls \in { <<Join(<<s_goto, s_L>>)>>,
                 <<Join(<<s_label, s_L>>), Join(<<s_goto, s_L>>)>>,
                 <<Join(<<s_if_goto, s_L>>), PushConstant(1), Join(<<s_label, s_L>>)>>,
                 <<>>,
                 <<s_slashes, Join(<<s_pop, s_constant, <<"3">>>>)>>,
                 <<Join(<<s_pop, s_pointer, <<"2">>>>)>> },
        b \in {0, 65535} }

s_notdone == <<"n","o","t","d","o","n","e">>
s_pushback == <<"p","u","s","h","b","a","c","k">>
s_Math_multiply == <<"M","a","t","h",".","m","u","l","t","i","p","l","y">>
s_Main_add == <<"M","a","i","n",".","a","d","d">>
s_LOOP == <<"L","O","O","P">>

\* a memory with an empty stack
PlainMemory == Memory(256, 300, 400, 3000, 4000, Cells(255, <<4242>>))

\* commands whose label or function name holds the letters of a keyword, and
\* commands whose name holds none
RunsClassify ==
    { Run(ls, PlainMemory) :
        ls \in { <<Join(<<s_goto, s_notdone>>)>>,
                 <<Join(<<s_label, s_pushback>>)>>,
                 <<Join(<<s_call, s_Math_multiply, <<"2">>>>)>>,
                 <<Join(<<s_function, s_Main_add, <<"0">>>>)>>,
                 <<Join(<<s_if_goto, s_notdone>>)>>,
                 <<Join(<<s_label, s_LOOP>>), Join(<<s_if_goto, s_LOOP>>),
                   Join(<<s_goto, s_LOOP>>)>>,
                 <<Join(<<s_function, s_LOOP, <<"1">>>>), s_return>> } }

s_foo == <<"f","o","o">>

\* a comparison and a call, then a command that cannot be translated, then a
\* command that could
RunsError ==
    { Run(<<s_eq, Join(<<s_call, s_g, <<"0">>>>), bad, PushConstant(1)>>, PlainMemory) :
        bad \in { s_foo,
                  Join(<<s_push, s_foo, <<"3">>>>),
                  Join(<<s_pop, s_foo, <<"0">>>>),
                  Join(<<s_push, s_pointer, <<"2">>>>),
                  Join(<<s_pop, s_pointer, <<"2">>>>) } }

\* label, goto and if-goto with names the grammar admits and names it does not
LabelNames == {s_END, <<"1","x">>, <<"a","%","b">>, <<"L","9">>, <<"_",".","$",":">>}

RunsLabel ==
    { Run(<<Join(<<command, name>>)>>, Memory(257, 300, 400, 3000, 4000, Cells(256, <<1>>))) :
        command \in {s_label, s_goto, s_if_goto}, name \in LabelNames }

PopConstant(i) == Join(<<s_pop, s_constant, Str(i)>>)

\* pop constant alone, twice, and between other commands
RunsPopConstant ==
    { Run(ls, Memory(257, 300, 400, 3000, 4000, Cells(256, <<5>>))) :
        ls \in { <<PopConstant(0)>>,
                 <<PopConstant(7), PopConstant(40000)>>,
                 <<s_eq, PopConstant(1), PushConstant(2), PopConstant(32767), s_not>> } }

\* a function entered with LCL = SP, over cells that hold other words
RunsFunction ==
    { Run(<<Join(<<s_function, s_g, Str(k)>>), s_add>>,
          Memory(260, 260, 400, 3000, 4000, Cells(259, <<9, 8, 7, 6, 5>>))) :
        k \in 0..(MaxLocals + 1) }

AddressedSegments == SegmentNames \cup {s_pointer, s_static}

\* a memory whose segments, temp cells, first variables and stack cells hold
\* words that differ from each other
SegmentMemory ==
    Memory(256, 300, 400, 3000, 4000,
           Merge(Cells(5, <<51, 52, 53>>),
           Merge(Cells(16, <<61, 62, 63>>),
           Merge(Cells(256, <<71, 72>>),
           Merge(Cells(300, <<31, 32, 33>>),
           Merge(Cells(400, <<41, 42, 43>>),
           Merge(Cells(3000, <<81, 82, 83>>), Cells(4000, <<91, 92, 93>>))))))))

PushSegment(segment, i) == Join(<<s_push, segment, Str(i)>>)

\* one push from a segment, and pushes from static 1, static 0 and pointer 1
RunsPush ==
    { Run(<<PushSegment(seg, i)>>, SegmentMemory) :
        seg \in AddressedSegments, i \in 0..2 }
    \cup { Run(<<PushSegment(s_static, 1), PushSegment(s_static, 0),
                 PushSegment(s_pointer, 1)>>, SegmentMemory) }

PopSegment(segment, i) == Join(<<s_pop, segment, Str(i)>>)

\* a constant is pushed, which leaves it in D, and popped to a segment
RunsPop ==
    { Run(<<PushConstant(c), PopSegment(seg, i)>>, SegmentMemory) :
        c \in {7, 1234}, seg \in AddressedSegments, i \in 0..2 }

s_seven == <<"s","e","v","e","n">>
s_push_it == <<"p","u","s","h"," ","i","t">>
s_or_not == <<"o","r"," ","n","o","t">>
s_the_label == <<"t","h","e"," ","l","a","b","e","l">>

\* texts of a comment: one with no keyword in it and three that hold one
CommentTexts == {s_seven, s_push_it, s_or_not, s_the_label}

Commented(command, text) == command \o <<" ">> \o s_slashes \o <<" ">> \o text

\* a comment line, a blank line, a command with a comment after it, an
\* indented comment line, a line of blanks and a last command
RunsComment ==
    { Run(<<s_slashes \o <<" ">> \o text, <<>>, Commented(command, text),
            <<" ", " ">> \o s_slashes \o text, <<" ", "\t">>, PushConstant(1)>>,
          Memory(258, 300, 400, 3000, 4000, Cells(256, <<71, 72>>))) :
        command \in {PushConstant(7), PopLocal0, s_add, s_return,
                     Join(<<s_goto, s_LOOP>>)},
        text \in CommentTexts }

s_Foo == <<"F","o","o">>
s_Main == <<"M","a","i","n">>

\* paths of Main.vm and Foo.vm: plain, from the current directory, through a
\* directory and through a directory with a dot in its name
Paths ==
    { dir \o file \o s_vm :
        dir \in {<<>>, <<".","/">>, <<"D","/">>, <<"A",".","b","/">>},
        file \in {s_Main, s_Foo} }

\* a user label, a static variable, a function and a goto
RunsPath ==
    { Run(<<Join(<<s_label, s_L>>), PushSegment(s_static, 0),
            Join(<<s_function, s_g, <<"0">>>>), Join(<<s_goto, s_L>>)>>,
          SegmentMemory) }

\* calls of functions named as a predefined symbol or a scratch symbol
RunsReserved ==
    { Run(<<Join(<<s_call, name, <<"0">>>>)>>, PlainMemory) :
        name \in {s_SP, s_R13, s_frame, s_retAddr} }

\* two functions that each declare the label L and jump to it
RunsFunctionLabels ==
    { Run(<<Join(<<s_function, s_f, <<"0">>>>), Join(<<s_label, s_L>>),
            Join(<<jump, s_L>>),
            Join(<<s_function, s_g, <<"0">>>>), Join(<<s_label, s_L>>),
            Join(<<s_goto, s_L>>)>>,
          Memory(257, 300, 400, 3000, 4000, Cells(256, <<0>>))) :
        jump \in {s_goto, s_if_goto} }

\* a user label spelled as a label that a comparison, a function or a call
\* generates, and two comparisons in a row
RunsGenerated ==
    { Run(ls, Memory(258, 300, 400, 3000, 4000, Cells(256, <<1, 2>>))) :
        ls \in { <<s_eq, Join(<<s_label, s_END \o <<"0">>>>)>>,
                 <<Join(<<s_label, s_L>>), Join(<<s_function, s_L, <<"0">>>>)>>,
                 <<Join(<<s_call, s_g, <<"0">>>>),
                   Join(<<s_label, s_g \o s_ret \o <<"0">>>>)>>,
                 <<PushConstant(1), s_lt, s_gt, Join(<<s_label, s_TRUE \o <<"0">>>>)>> } }

Runs == RunsPushPop \cup RunsArithmetic \cup RunsCompare \cup RunsCall
        \cup RunsReturn \cup RunsBranch \cup RunsClassify \cup RunsError
        \cup RunsLabel \cup RunsPopConstant \cup RunsFunction
        \cup RunsPush \cup RunsPop \cup RunsComment
        \cup RunsPath \cup RunsReserved \cup RunsFunctionLabels
        \cup RunsGenerated

\* the machine before a program is loaded
MachineIdle ==
    /\ mode = "idle"
    /\ rom = <<>>
    /\ pc = 0
    /\ A = 0
    /\ D = 0
    /\ snap = <<>>
    /\ cur = 0
    /\ hist = <<>>
    /\ steps = 0

\* the paths a source is given by: plain for most, every path for some
Sources(r) == IF r \in RunsPath THEN Paths ELSE {s_Main_vm}

Init ==
    /\ \E r \in Runs :
          \E src \in Sources(r) :
              /\ writers = [i \in {1} |-> Translator(src, r.lines)]
              /\ ram = r.ram
    /\ files = <<>>
    /\ MachineIdle

Next ==
    \/ DriverStart(1)
    \/ DriverStep(1)
    \/ DriverEnd(1)
    \/ LoadProgram
    \/ Step
    \/ Leave

Spec == Init /\ [][Next]_vars

----------------------------------------------------------------------------
(* Several translator runs in one process: two modules named Main in        *)
(* different directories and a module named Foo                             *)

s_A_Main_vm == <<"A","/">> \o s_Main_vm
s_B_Main_vm == <<"B","/">> \o s_Main_vm
s_Foo_vm == <<"F","o","o">> \o s_vm

LinkSources == <<s_A_Main_vm, s_B_Main_vm, s_Foo_vm>>

\* sources that use the label L, the function name L and both counters
LinkPrograms ==
    { <<Join(<<s_label, s_L>>), s_eq, Join(<<s_goto, s_L>>)>>,
      <<Join(<<s_function, s_L, <<"0">>>>), Join(<<s_call, s_f, <<"0">>>>),
        Join(<<s_if_goto, s_L>>)>> }

InitLink ==
    /\ \E ps \in [DOMAIN LinkSources -> LinkPrograms] :
          writers = [i \in DOMAIN LinkSources |-> Translator(LinkSources[i], ps[i])]
    /\ files = <<>>
    /\ ram = <<>>
    /\ MachineIdle

NextLink ==
    \/ \E i \in DOMAIN writers : DriverStart(i)
    \/ \E i \in DOMAIN writers : DriverStep(i)
    \/ \E i \in DOMAIN writers : DriverEnd(i)
    \/ \E i \in DOMAIN writers : DriverAgain(i)

SpecLink == InitLink /\ [][NextLink]_vars

----------------------------------------------------------------------------
(* A CodeWriter used through its public operations, in any order            *)

MaxOps == 3

s_Main_asm == s_Main \o s_asm

\* an operation of the CodeWriter: its name, the text it appended and the
\* counters before and after it
Operation(name, out, self, ac, cc) ==
    [kind |-> name, out |-> out,
     counters_before |-> <<self.arithmetic_counter, self.call_counter>>,
     counters |-> <<ac, cc>>]

\* _write_to_file(out) with the counters left at ac and cc
Appends(name, out, ac, cc) ==
    LET self == writers[1]
    IN  /\ writers[1].phase = "writer"
        /\ Len(self.marks) < MaxOps
        /\ files' = Put(files, self.filename, Content(files, self.filename) \o out)
        /\ writers' = [writers EXCEPT ![1] =
              [self EXCEPT !.arithmetic_counter = ac,
                           !.call_counter = cc,
                           !.marks = Append(self.marks, Operation(name, out, self, ac, cc))]]
        /\ UNCHANGED <<mode, rom, pc, A, D, ram, snap, cur, hist, steps>>

Same(name, out) ==
    Appends(name, out, writers[1].arithmetic_counter, writers[1].call_counter)

WritePushPop ==
    \E command \in {"C_PUSH", "C_POP"} : \E segment \in {s_constant, s_static} :
        Same("write_push_pop", write_push_pop(writers[1].filename, command, segment, 1).val)

WriteArithmetic ==
    \E command \in {s_add, s_eq, s_not} :
        Appends("write_arithmetic",
                write_arithmetic(writers[1].filename, writers[1].arithmetic_counter,
                                 command).val,
                writers[1].arithmetic_counter + 1, writers[1].call_counter)

WriteLabel == Same("write_label", write_label(scoped_label(writers[1].filename, s_L)))

WriteGoto == Same("write_goto", write_goto(scoped_label(writers[1].filename, s_L)))

WriteIfGoto == Same("write_if_goto", write_if_goto(scoped_label(writers[1].filename, s_L)))

WriteFunction == Same("write_function", write_function(writers[1].filename, s_g, 1))

WriteCall ==
    Appends("write_call",
            write_call(writers[1].filename, writers[1].call_counter, s_g, 0),
            writers[1].arithmetic_counter, writers[1].call_counter + 1)

WriteReturn == Same("write_return", write_return(writers[1].filename))

WriteEndLoop == Same("write_end_loop", write_end_loop(writers[1].filename))

\* CodeWriter.reset() on the writer in use: the file is emptied and the
\* counters are set to 0
Reset ==
    LET self == writers[1]
    IN  /\ writers[1].phase = "writer"
        /\ Len(self.marks) < MaxOps
        /\ files' = Put(files, self.filename, <<>>)
        /\ writers' = [writers EXCEPT ![1] =
              [reset(self) EXCEPT
                  !.marks = Append(self.marks, Operation("reset", <<>>, self, 0, 0))]]
        /\ UNCHANGED <<mode, rom, pc, A, D, ram, snap, cur, hist, steps>>

\* CodeWriter("Main.asm")
InitWriter ==
    /\ writers = [i \in {1} |->
          reset([Translator(s_Main_vm, <<>>) EXCEPT
                    !.filename = s_Main_asm, !.phase = "writer"])]
    /\ files = Put(<<>>, s_Main_asm, <<>>)
    /\ ram = <<>>
    /\ MachineIdle

NextWriter ==
    \/ WritePushPop
    \/ WriteArithmetic
    \/ WriteLabel
    \/ WriteGoto
    \/ WriteIfGoto
    \/ WriteFunction
    \/ WriteCall
    \/ WriteReturn
    \/ WriteEndLoop
    \/ Reset

SpecWriter == InitWriter /\ [][NextWriter]_vars

----------------------------------------------------------------------------
(* A Parser used through its operations, in any order                       *)

MaxRequests == 2

s_done == <<"d","o","n","e">>

\* sources with a command of every kind, with and without a comment after it,
\* and with a word too many
ParserSources ==
    { <<PushConstant(1), PopLocal0, s_add, s_eq, Join(<<s_label, s_L>>),
        Join(<<s_goto, s_L>>), Join(<<s_if_goto, s_L>>),
        Join(<<s_function, s_g, <<"1">>>>), Join(<<s_call, s_g, <<"0">>>>), s_return>>,
      <<Commented(s_return, s_done), Join(<<s_label, s_L, <<"3">>>>),
        Join(<<s_goto, s_L, <<"3">>>>), Join(<<s_if_goto, s_L, <<"3">>>>),
        Join(<<s_add, s_L, <<"3">>>>), Join(<<s_return, s_L, <<"3">>>>)>> }

\* a request made to the Parser: the operation, the line it was made on, the
\* error raised or the value returned (as text) and the cursor it was made at
Request(name, line, err, text, at) ==
    [kind |-> name, line |-> line, err |-> err, text |-> text, at |-> at]

Requested(name, err, text) ==
    LET self == writers[1]
    IN  /\ self.phase = "parser"
        /\ has_more_lines(self.lines, self.current_idx)
        /\ Len(self.marks) < MaxRequests
        /\ writers' = [writers EXCEPT ![1].marks =
              Append(self.marks,
                     Request(name, current_line(self.lines, self.current_idx), err, text,
                             self.current_idx))]
        /\ UNCHANGED <<files, mode, rom, pc, A, D, ram, snap, cur, hist, steps>>

\* parser.arg1()
RequestArg1 ==
    LET r == arg1(current_line(writers[1].lines, writers[1].current_idx))
    IN  Requested("arg1", r.err, r.val)

\* parser.arg2()
RequestArg2 ==
    LET r == arg2(current_line(writers[1].lines, writers[1].current_idx))
    IN  Requested("arg2", r.err, IF r.err = "" THEN Str(r.val) ELSE <<>>)

\* parser.advance()
ParserAdvance ==
    /\ writers[1].phase = "parser"
    /\ has_more_lines(writers[1].lines, writers[1].current_idx)
    /\ writers' = [writers EXCEPT ![1].current_idx =
          advance(writers[1].lines, writers[1].current_idx)]
    /\ UNCHANGED <<files, mode, rom, pc, A, D, ram, snap, cur, hist, steps>>

\* Parser("Main.vm")
InitParser ==
    /\ \E ls \in ParserSources :
          writers = [i \in {1} |-> [Translator(s_Main_vm, ls) EXCEPT !.phase = "parser"]]
    /\ files = <<>>
    /\ ram = <<>>
    /\ MachineIdle

NextParser ==
    \/ RequestArg1
    \/ RequestArg2
    \/ ParserAdvance

SpecParser == InitParser /\ [][NextParser]_vars

----------------------------------------------------------------------------
(* Properties of the emitted code when it runs *)

SP(mem) == Read(mem, 0)
LCL(mem) == Read(mem, 1)
ARG(mem) == Read(mem, 2)
THIS(mem) == Read(mem, 3)
THAT(mem) == Read(mem, 4)

AllOnes == WordModulus - 1

HistEndsWith(ks) ==
    Len(hist) >= Len(ks) /\ SubSeq(hist, Len(hist) - Len(ks) + 1, Len(hist)) = ks

\* the commands ks have just run, each from start to end, one after the other
JustRan(ks) == mode = "run" /\ HistEndsWith(ks) /\ pc = marks[ks[Len(ks)]].to

\* the code of command k has run from its start up to its last instruction,
\* which is about to be executed
AtLastInstruction(k) == mode = "run" /\ cur = k /\ pc = marks[k].to - 1

Word1(k) == Split(marks[k].line)[1]
Word2(k) == Split(marks[k].line)[2]
Number3(k) == ParseInt(Split(marks[k].line)[3])

IsPushConstant(k) == marks[k].kind = "C_PUSH" /\ Word2(k) = s_constant

\* the bits of a word that are 1, and the word of a set of bits
RECURSIVE Pow2(_)
Pow2(i) == IF i = 0 THEN 1 ELSE 2 * Pow2(i - 1)

Bits(w) == {i \in 0..15 : (w \div Pow2(i)) % 2 = 1}

RECURSIVE WordOf(_)
WordOf(bits) == IF bits = {} THEN 0
                ELSE LET i == CHOOSE b \in bits : TRUE
                     IN  Pow2(i) + WordOf(bits \ {i})

PushPopPair(k) ==
    /\ k + 1 <= Len(marks)
    /\ IsPushConstant(k)
    /\ marks[k + 1].line = PopLocal0
    /\ JustRan(<<k, k + 1>>)

\* C7: after the code of `push constant c` followed by the code of
\* `pop local 0`, RAM[LCL] = c, SP has the value it had before the push, and
\* LCL, ARG, THIS and THAT are unchanged (c a constant that `@c` can load,
\* 0..32767).
C7_PushConstantPopLocal ==
    \A k \in 1..Len(marks) :
        PushPopPair(k) =>
            /\ Read(ram, LCL(ram)) = Number3(k)
            /\ SP(ram) = SP(snap[k])
            /\ \A r \in 1..4 : Read(ram, r) = Read(snap[k], r)

C7_Witness ==
    \E k \in 1..Len(marks) :
        /\ PushPopPair(k)
        /\ Number3(k) = 32767
        /\ Read(ram, LCL(ram)) = 32767
        /\ Read(snap[k], LCL(ram)) # 32767

Binary(op) == op \in {s_add, s_sub, s_and, s_or}
Unary(op) == op \in {s_neg, s_not}

ArithmeticRan(k) ==
    /\ marks[k].kind = "C_ARITHMETIC"
    /\ (Binary(Word1(k)) \/ Unary(Word1(k)))
    /\ JustRan(<<k>>)

\* the word add, sub, and, or, neg, not must leave for x below y
Expected(op, x, y) ==
    CASE op = s_add -> (x + y) % WordModulus
      [] op = s_sub -> (x - y) % WordModulus
      [] op = s_and -> WordOf(Bits(x) \cap Bits(y))
      [] op = s_or -> WordOf(Bits(x) \cup Bits(y))
      [] op = s_neg -> (WordModulus - y) % WordModulus
      [] op = s_not -> WordOf((0..15) \ Bits(y))

\* C8: add, sub, and, or replace the two top words x, y of the stack by x+y,
\* x-y, x&y, x|y (modulo 2^16) and lower SP by 1; neg and not replace the top
\* word y by -y and by its complement and leave SP as it is; no cell below
\* the operands is modified.
C8_ArithmeticResults ==
    \A k \in 1..Len(marks) :
        ArithmeticRan(k) =>
            LET pre == snap[k]
                sp == SP(pre)
                op == Word1(k)
                y == Read(pre, sp - 1)
                x == Read(pre, sp - 2)
                low == IF Binary(op) THEN sp - 2 ELSE sp - 1
            IN  /\ SP(ram) = (IF Binary(op) THEN sp - 1 ELSE sp)
                /\ Read(ram, low) = Expected(op, x, y)
                /\ \A a \in (DOMAIN ram \cup DOMAIN pre) \ {0} :
                      a < low => Read(ram, a) = Read(pre, a)

C8_Witness ==
    \E k \in 1..Len(marks) :
        /\ ArithmeticRan(k)
        /\ Word1(k) = s_sub
        /\ Read(snap[k], SP(snap[k]) - 2) = 1
        /\ Read(snap[k], SP(snap[k]) - 1) = 2
        /\ Read(ram, SP(ram) - 1) = AllOnes
        /\ Read(ram, SP(ram) - 2) = 4242

IsComparison(k) == marks[k].kind = "C_ARITHMETIC" /\ Word1(k) \in {s_eq, s_lt, s_gt}

\* the comparison k has just run on the constants pushed by k-2 and k-1
ComparedConstants(k) ==
    /\ k >= 3
    /\ IsComparison(k)
    /\ IsPushConstant(k - 2)
    /\ IsPushConstant(k - 1)
    /\ JustRan(<<k - 2, k - 1, k>>)

Holds(op, x, y) ==
    CASE op = s_eq -> x = y
      [] op = s_lt -> x < y
      [] op = s_gt -> x > y

\* C9: for constants x pushed first and y pushed second, eq, lt, gt leave
\* one word in place of the two, -1 when x = y, x < y, x > y and 0 otherwise,
\* with SP lowered by 1; and from every instruction of a comparison that runs
\* on them control stays in the comparison or goes to the address of its end
\* label, the first address after its code.
C9_ComparisonResults ==
    \A k \in 3..Len(marks) :
        /\ ComparedConstants(k) =>
              /\ SP(ram) = SP(snap[k]) - 1
              /\ SP(ram) = SP(snap[k - 2]) + 1
              /\ Read(ram, SP(ram) - 1) =
                    (IF Holds(Word1(k), Number3(k - 2), Number3(k - 1)) THEN AllOnes ELSE 0)
        /\ (/\ mode = "run" /\ cur = k /\ IsComparison(k)
            /\ IsPushConstant(k - 2) /\ IsPushConstant(k - 1)
            /\ HistEndsWith(<<k - 2, k - 1>>))
           => /\ marks[k].from < NextPc /\ NextPc <= marks[k].to
              /\ fill_symbol_table(output, symbol_table)[output[marks[k].last].sym]
                    = marks[k].to

C9_Witness ==
    \E k \in 3..Len(marks) :
        /\ ComparedConstants(k)
        /\ Word1(k) = s_lt
        /\ Number3(k - 2) = 1
        /\ Number3(k - 1) = 17
        /\ Read(ram, SP(ram) - 1) = AllOnes

\* a comparison that does not hold leaves 0 through the jump to its end label
C9_WitnessFalse ==
    \E k \in 3..Len(marks) :
        /\ ComparedConstants(k)
        /\ Word1(k) = s_gt
        /\ Number3(k - 2) = 1
        /\ Number3(k - 1) = 17
        /\ Read(ram, SP(ram) - 1) = 0

\* the commands kc..kr-1 that have instructions
Executed(kc, kr) ==
    SelectSeq([i \in 1..(kr - kc) |-> kc + i - 1], LAMBDA j : marks[j].to > marks[j].from)

\* the call kc ran, control went on through the commands after it, none of
\* them a call or a return, and the return kr has run up to its jump
CallThenReturn(kc, kr) ==
    /\ kc < kr
    /\ marks[kc].kind = "C_CALL"
    /\ marks[kr].kind = "C_RETURN"
    /\ \A j \in (kc + 1)..(kr - 1) : marks[j].kind \notin {"C_CALL", "C_RETURN"}
    /\ AtLastInstruction(kr)
    /\ hist = Executed(1, kr)

\* the address the assembler gives the label defined by the line i of the output
AddressOfLabel(i) == fill_symbol_table(output, symbol_table)[output[i].sym]

\* C1: a call with n arguments, a callee that pushes one value v, and
\* return leave LCL, ARG, THIS and THAT as they were before the call,
\* SP = (SP before the call) - n + 1 and RAM[SP-1] = v.
C1_CallReturnRoundTrip ==
    \A kc \in 1..Len(marks), kr \in 1..Len(marks) :
        CallThenReturn(kc, kr) =>
            LET before == snap[kc]
                v == Read(snap[kr], SP(snap[kr]) - 1)
            IN  /\ \A r \in 1..4 : Read(ram, r) = Read(before, r)
                /\ SP(ram) = SP(before) - Number3(kc) + 1
                /\ Read(ram, SP(ram) - 1) = v

\* C2: when the code of a call with n arguments reaches its jump, with s the
\* value of SP before the call: RAM[s..s+4] hold the address of the call's
\* return label and the caller's LCL, ARG, THIS and THAT, SP = s + 5,
\* ARG = s - n and LCL = SP.
C2_CallFrame ==
    \A kc \in 1..Len(marks) :
        (marks[kc].kind = "C_CALL" /\ AtLastInstruction(kc)) =>
            LET before == snap[kc]
                s == SP(before)
            IN  /\ Read(ram, s) = AddressOfLabel(marks[kc].last)
                /\ Read(ram, s + 1) = LCL(before)
                /\ Read(ram, s + 2) = ARG(before)
                /\ Read(ram, s + 3) = THIS(before)
                /\ Read(ram, s + 4) = THAT(before)
                /\ SP(ram) = s + 5
                /\ ARG(ram) = s - Number3(kc)
                /\ LCL(ram) = SP(ram)

\* C3: the jump of `call name n` targets the label text that `function name k`
\* defines in the same module, and so the address of the callee's prologue.
C3_CallTargetsFunctionLabel ==
    \A kc \in 1..Len(marks), kf \in 1..Len(marks) :
        (/\ marks[kc].kind = "C_CALL"
         /\ marks[kf].kind = "C_FUNCTION"
         /\ Word2(kc) = Word2(kf)) =>
            /\ output[marks[kc].last - 2].sym = output[marks[kf].first + 1].sym
            /\ AtLastInstruction(kc) => A = marks[kf].from

\* C4: return ends with a jump to the return address of the matching call,
\* the address of the return label emitted after the call's jump.
C4_ReturnResumesAtCallSite ==
    \A kc \in 1..Len(marks), kr \in 1..Len(marks) :
        CallThenReturn(kc, kr) =>
            /\ rom[pc + 1].jump = "JMP"
            /\ A = AddressOfLabel(marks[kc].last)

ReturnRan(kr) == marks[kr].kind = "C_RETURN" /\ AtLastInstruction(kr)

\* the words return leaves behind
C5_FinalValues ==
    \A kr \in 1..Len(marks) :
        ReturnRan(kr) =>
            LET pre == snap[kr]
                F == LCL(pre)
                a == ARG(pre)
                v == Read(pre, SP(pre) - 1)
            IN  /\ Read(ram, a) = v
                /\ SP(ram) = a + 1
                /\ THAT(ram) = Read(pre, F - 1)
                /\ THIS(ram) = Read(pre, F - 2)
                /\ ARG(ram) = Read(pre, F - 3)
                /\ LCL(ram) = Read(pre, F - 4)

\* while the return sequence runs, LCL is written after ARG, ARG after THIS
\* and THIS after THAT, the reverse of the order of the call's pushes
C5_RestoreOrder ==
    \A kr \in 1..Len(marks) :
        (mode = "run" /\ cur = kr /\ marks[kr].kind = "C_RETURN") =>
            LET pre == snap[kr]
                F == LCL(pre)
            IN  /\ LCL(ram) # LCL(pre) => ARG(ram) = Read(pre, F - 3)
                /\ ARG(ram) # ARG(pre) => THIS(ram) = Read(pre, F - 2)
                /\ THIS(ram) # THIS(pre) => THAT(ram) = Read(pre, F - 1)

\* C5: run with LCL = F, ARG = a and v on top of the stack, in a frame laid
\* out by the calling convention (a <= F - 5), return stores v in RAM[a],
\* sets SP = a + 1 and THAT, THIS, ARG, LCL to the words RAM[F-1], RAM[F-2],
\* RAM[F-3], RAM[F-4] held when the return sequence started.
\* The four pointers are restored in this order.
C5_ReturnRestoresFrame == C5_FinalValues /\ C5_RestoreOrder

\* a return in a frame whose four saved words differ
C5_Witness ==
    \E kr \in 1..Len(marks) :
        /\ ReturnRan(kr)
        /\ LCL(snap[kr]) = 317
        /\ ARG(snap[kr]) = 310
        /\ Read(ram, 310) = 77
        /\ SP(ram) = 311
        /\ <<LCL(ram), ARG(ram), THIS(ram), THAT(ram)>> = <<1001, 1002, 1003, 1004>>

----------------------------------------------------------------------------
(* Properties of the text emitted by several translator runs *)

Written(i) == Content(files, writers[i].filename)
Module(i) == _basename(writers[i].filename)
Opened(i) == writers[i].filename # <<>>

IsLabelCommand(i, k) == writers[i].marks[k].kind \in {"C_LABEL", "C_GOTO", "C_IF"}
IsBranch(i, k) == writers[i].marks[k].kind \in {"C_GOTO", "C_IF"}

\* the label a label, goto or if-goto command names in the source
UserLabel(i, k) == Split(writers[i].marks[k].line)[2]

\* the label text emitted for it: the label defined by a label command, the
\* symbol loaded before the jump of a goto or an if-goto
EmittedLabel(i, k) ==
    IF writers[i].marks[k].kind = "C_LABEL"
    THEN Written(i)[writers[i].marks[k].last].sym
    ELSE Written(i)[writers[i].marks[k].last - 1].sym

\* the label texts defined anywhere in the output of a run
DefinedLabels(i) == {Written(i)[n].sym : n \in {m \in 1..Len(Written(i)) : Written(i)[m].t = "L"}}

Translated(i) == writers[i].phase = "translated"

\* C10: two runs that have translated the same lines for the same module name
\* have written the same output, whatever runs came before or in between.
C10_SameOutput ==
    \A i \in DOMAIN writers : \A j \in DOMAIN writers :
        (Translated(i) /\ Translated(j) /\ Module(i) = Module(j)
         /\ writers[i].lines = writers[j].lines)
            => Written(i) = Written(j)

\* the same lines translated for Main in two directories, once by a first
\* CodeWriter and once by a CodeWriter constructed after an earlier one had
\* advanced its counters, while the translation of Foo is under way
C10_Witness ==
    /\ Translated(1) /\ Translated(2)
    /\ writers[1].filename # writers[2].filename
    /\ writers[1].lines = writers[2].lines
    /\ writers[1].runs = 1 /\ writers[2].runs = 2
    /\ writers[1].arithmetic_counter + writers[1].call_counter > 0
    /\ writers[3].phase = "translate" /\ Len(writers[3].marks) > 0

----------------------------------------------------------------------------
(* Properties of the Parser and of the driver *)

\* the line the driver is about to classify
AtLine == writers[1].phase = "translate"
          /\ has_more_lines(lines, writers[1].current_idx)
Line == current_line(lines, writers[1].current_idx)

ValidSegments == SegmentNames \cup {s_pointer, s_static, s_constant}
OperatorWords == {s_add, s_sub, s_neg, s_eq, s_gt, s_lt, s_and, s_or, s_not}

\* the kind the input grammar gives a line, by its leading keyword
GrammarKind(line) ==
    LET keyword == Split(line)[1]
    IN  CASE keyword = s_push -> "C_PUSH"
          [] keyword = s_pop -> "C_POP"
          [] keyword = s_label -> "C_LABEL"
          [] keyword = s_goto -> "C_GOTO"
          [] keyword = s_if_goto -> "C_IF"
          [] keyword = s_function -> "C_FUNCTION"
          [] keyword = s_call -> "C_CALL"
          [] keyword = s_return -> "C_RETURN"
          [] keyword \in OperatorWords -> "C_ARITHMETIC"
          [] OTHER -> "none"

\* a name of the grammar: letters, digits, _ . $ :, no digit first
GrammarName(name) ==
    /\ Len(name) > 0
    /\ name[1] \in LabelFirst
    /\ \A i \in 2..Len(name) : name[i] \in LabelFirst \cup Digits

\* the line conforms to the input grammar
Conforms(line) ==
    LET words == Split(line)
    IN  /\ Len(words) >= 1
        /\ CASE GrammarKind(line) \in {"C_PUSH", "C_POP"} ->
                    Len(words) = 3 /\ words[2] \in ValidSegments /\ IsDigit(words[3])
             [] GrammarKind(line) \in {"C_LABEL", "C_GOTO", "C_IF"} ->
                    Len(words) = 2 /\ GrammarName(words[2])
             [] GrammarKind(line) \in {"C_FUNCTION", "C_CALL"} ->
                    Len(words) = 3 /\ GrammarName(words[2]) /\ IsDigit(words[3])
             [] GrammarKind(line) \in {"C_RETURN", "C_ARITHMETIC"} -> Len(words) = 1
             [] OTHER -> FALSE

\* C11: on every line that conforms to the grammar, command_type returns the
\* kind of the leading keyword, arg1 the first operand (the operator for an
\* arithmetic command) and arg2 the integer second operand; a command that was
\* translated was translated as the kind of its keyword.
C11_ClassificationFollowsGrammar ==
    /\ (AtLine /\ Conforms(Line)) =>
          LET kind == GrammarKind(Line)
              words == Split(Line)
          IN  /\ command_type(Line) = kind
              /\ kind = "C_ARITHMETIC" => arg1(Line) = Ok(words[1])
              /\ kind \notin {"C_ARITHMETIC", "C_RETURN"} => arg1(Line) = Ok(words[2])
              /\ kind \in {"C_PUSH", "C_POP", "C_FUNCTION", "C_CALL"}
                    => arg2(Line) = Ok(ParseInt(words[3]))
    /\ \A k \in 1..Len(marks) :
          (marks[k].kind # "END" /\ Conforms(marks[k].line))
              => marks[k].kind = GrammarKind(marks[k].line)

\* the text command k appended to the output
Emitted(k) == SubSeq(output, marks[k].first + 1, marks[k].last)

\* the name the driver hands to write_label, write_goto, write_if_goto
NameGiven(k) == _basename(filename) \o <<".">> \o Word2(k)

IfGotoRan(k) == marks[k].kind = "C_IF" /\ AtLastInstruction(k)

\* C12: write_label(name) appends (name); write_goto(name) appends @name and
\* 0;JMP; write_if_goto(name) appends @SP, M=M-1, A=M, D=M, @name, D;JNE; the
\* name is the one given, with nothing added; the counters stay as they are;
\* when run, if-goto lowers SP by 1 and jumps to the address of the name if
\* and only if the popped word is not 0.
C12_ControlFlowTemplates ==
    \A k \in 1..Len(marks) :
        /\ marks[k].kind = "C_LABEL" =>
              /\ Emitted(k) = <<LI(NameGiven(k))>>
              /\ marks[k].counters = marks[k].counters_before
        /\ marks[k].kind = "C_GOTO" =>
              /\ Emitted(k) = <<AI(NameGiven(k)), CI("", "0", "JMP")>>
              /\ marks[k].counters = marks[k].counters_before
        /\ marks[k].kind = "C_IF" =>
              /\ Emitted(k) = <<AI(s_SP), CI("M", "M-1", ""), CI("A", "M", ""),
                                CI("D", "M", ""), AI(NameGiven(k)), CI("", "D", "JNE")>>
              /\ marks[k].counters = marks[k].counters_before
        /\ IfGotoRan(k) =>
              LET popped == Read(snap[k], SP(snap[k]) - 1)
              IN  /\ SP(ram) = SP(snap[k]) - 1
                  /\ \A a \in (DOMAIN ram \cup DOMAIN snap[k]) \ {0} :
                        Read(ram, a) = Read(snap[k], a)
                  /\ NextPc = (IF popped # 0 THEN SymbolTable(output)[NameGiven(k)]
                               ELSE pc + 1)

\* an if-goto that popped a word that is not 0 and is about to jump over a
\* command to its label
C12_Witness ==
    \E k \in 1..Len(marks) :
        /\ IfGotoRan(k)
        /\ Read(snap[k], SP(snap[k]) - 1) = 65535
        /\ NameGiven(k) \in Labels(output)
        /\ NextPc > pc + 1

\* the driver has come to its end, with or without an error
Finished == writers[1].phase \in {"translated", "empty", "error"}

\* the command lines of a source: its lines, stripped, that are neither blank
\* nor whole-line comments
CommandLines(ls) ==
    SelectSeq([i \in 1..Len(ls) |-> Strip(ls[i])], LAMBDA l : ~skip_line(l))

\* every command of the source conforms to the grammar, with a pointer index
\* of 0 or 1
ValidModule(ls) ==
    \A i \in 1..Len(CommandLines(ls)) :
        LET line == CommandLines(ls)[i]
        IN  /\ Conforms(line)
            /\ (GrammarKind(line) \in {"C_PUSH", "C_POP"} /\ Split(line)[2] = s_pointer)
                  => ParseInt(Split(line)[3]) <= 1

\* the idle loop of the module
IdleLoop ==
    <<LI(_basename(filename) \o <<".">> \o s_END),
      AI(_basename(filename) \o <<".">> \o s_END), CI("", "0", "JMP")>>

\* C13: when the driver has ended on a module (also one with no command),
\* each command line was translated once and in source order and the output
\* ends with the idle loop (Module.END), @Module.END, 0;JMP; execution that is
\* in the idle loop stays in it.
C13_DriverOrderAndIdleLoop ==
    /\ (Finished /\ ValidModule(lines)) =>
          /\ writers[1].phase = "translated"
          /\ Len(marks) = Len(CommandLines(lines)) + 1
          /\ \A k \in 1..(Len(marks) - 1) : marks[k].line = CommandLines(lines)[k]
          /\ \A k \in 1..Len(marks) : marks[k].first = (IF k = 1 THEN 0 ELSE marks[k - 1].last)
          /\ marks[Len(marks)].kind = "END"
          /\ Len(output) >= 3
          /\ SubSeq(output, Len(output) - 2, Len(output)) = IdleLoop
    /\ (mode = "run" /\ InIdleLoop(pc)) => InIdleLoop(NextPc)

Keywords == OperatorWords \cup {s_push, s_pop, s_label, s_goto, s_if_goto,
                                  s_function, s_call, s_return}

\* a line with no command keyword in it, a push or pop of an unknown segment,
\* or a push or pop of pointer with an index that is neither 0 nor 1
Fatal(line) ==
    LET words == Split(line)
    IN  \/ \A w \in Keywords : ~Contains(line, w)
        \/ /\ Len(words) = 3
           /\ words[1] \in {s_push, s_pop}
           /\ IsDigit(words[3])
           /\ \/ words[2] \notin ValidSegments
              \/ words[2] = s_pointer /\ ParseInt(words[3]) > 1

\* the driver has stopped with an error: part of the source was translated,
\* no idle loop was appended, nothing follows the text of the last command
\* that was translated
StoppedAt(self) ==
    /\ self.phase = "error"
    /\ \A k \in 1..Len(self.marks) : self.marks[k].kind # "END"
    /\ Len(self.marks) < Len(CommandLines(self.lines))
    /\ \A k \in 1..Len(self.marks) : self.marks[k].line = CommandLines(self.lines)[k]
    /\ Len(Content(files, self.filename)) =
          (IF self.marks = <<>> THEN 0 ELSE self.marks[Len(self.marks)].last)

\* C14: at a line with no command keyword, with an unknown segment or with a
\* pointer index other than 0 and 1, the driver's step ends in an error and
\* leaves the output, the counters and the record of translated commands as
\* they were; after an error nothing is translated and no idle loop is added.
C14_FatalErrorsAbort ==
    /\ [][(AtLine /\ Fatal(Line)) =>
             /\ writers'[1].phase = "error"
             /\ files' = files
             /\ writers'[1].arithmetic_counter = writers[1].arithmetic_counter
             /\ writers'[1].call_counter = writers[1].call_counter
             /\ writers'[1].marks = writers[1].marks]_vars
    /\ [](writers[1].phase = "error" => StoppedAt(writers[1]))
    /\ [][writers[1].phase = "error" => UNCHANGED <<writers, files>>]_vars

\* the driver stopped at `pop pointer 2` after a comparison and a call had
\* advanced both counters
C14_Witness ==
    /\ writers[1].phase = "error"
    /\ Len(marks) = 2
    /\ CommandLines(lines)[3] = Join(<<s_pop, s_pointer, <<"2">>>>)
    /\ writers[1].arithmetic_counter = 1
    /\ writers[1].call_counter = 1
    /\ Len(output) = marks[2].last

LabelKinds == {"C_LABEL", "C_GOTO", "C_IF"}

\* the line is a label, goto or if-goto command with one operand, and is
\* classified as such
LabelCommand(line) ==
    /\ Len(Split(line)) = 2
    /\ Split(line)[1] \in {s_label, s_goto, s_if_goto}
    /\ command_type(line) = GrammarKind(line)

\* a label name the grammar admits and that is not the reserved name END
AdmissibleLabel(name) == GrammarName(name) /\ name # s_END

\* C15: a label, goto or if-goto command is translated only if its label name
\* is made of letters, digits, _ . $ : with no digit first and is not END;
\* with any other name the driver stops with an error and emits nothing for
\* the command; with an admissible name it never stops.
C15_LabelValidation ==
    /\ \A k \in 1..Len(marks) :
          (marks[k].kind # "END" /\ LabelCommand(marks[k].line))
              => AdmissibleLabel(Word2(k))
    /\ (writers[1].phase = "error"
        /\ LabelCommand(current_line(lines, writers[1].current_idx)))
          => /\ ~AdmissibleLabel(Split(current_line(lines, writers[1].current_idx))[2])
             /\ StoppedAt(writers[1])

IsPopConstant(line) ==
    /\ Len(Split(line)) = 3
    /\ Split(line)[1] = s_pop
    /\ Split(line)[2] = s_constant
    /\ IsDigit(Split(line)[3])

\* C16: pop constant i raises no error, appends nothing to the output (so
\* the program has no instruction for it and a program made of nothing else
\* writes no memory cell), and leaves both counters as they are.
C16_PopConstantNoOp ==
    /\ \A k \in 1..Len(marks) :
          (marks[k].kind # "END" /\ IsPopConstant(marks[k].line)) =>
              /\ marks[k].kind = "C_POP"
              /\ Emitted(k) = <<>>
              /\ marks[k].from = marks[k].to
              /\ marks[k].counters = marks[k].counters_before
    /\ writers[1].phase = "error"
          => ~IsPopConstant(current_line(lines, writers[1].current_idx))
    /\ (mode \in {"run", "off"}
        /\ \A i \in 1..Len(CommandLines(lines)) : IsPopConstant(CommandLines(lines)[i]))
          => \A a \in DOMAIN ram \cup DOMAIN snap[1] : Read(ram, a) = Read(snap[1], a)

\* the program of `pop constant 7`, `pop constant 40000`, which is the idle
\* loop alone, is running
C16_Witness ==
    /\ mode = "run"
    /\ pc = 1
    /\ Len(marks) = 3
    /\ marks[2].line = PopConstant(40000)
    /\ marks[3].from = 0
    /\ Read(ram, 256) = 5

IsFunction(k) == marks[k].kind = "C_FUNCTION" /\ Conforms(marks[k].line)

\* the text that pushes the constant 0
PushZero ==
    <<AI(<<"0">>), CI("D", "A", ""), AI(s_SP), CI("M", "M+1", ""),
      CI("A", "M-1", ""), CI("M", "D", "")>>

\* C17: function name n appends the label (Module.name) and then n times the
\* text that pushes the constant 0, for n = 0 the label alone; when the
\* prologue has run, SP has grown by n, the n cells from the entry value of SP
\* (the value of LCL at entry) hold 0 and no other cell has changed.
C17_FunctionPrologue ==
    \A k \in 1..Len(marks) :
        IsFunction(k) =>
            LET n == Number3(k)
            IN  /\ Len(Emitted(k)) = 1 + 6 * n
                /\ Emitted(k)[1] = LI(_basename(filename) \o <<".">> \o Word2(k))
                /\ \A j \in 0..(n - 1) :
                      SubSeq(Emitted(k), 2 + 6 * j, 7 + 6 * j) = PushZero
                /\ JustRan(<<k>>) =>
                      LET sp == SP(snap[k])
                      IN  /\ SP(ram) = sp + n
                          /\ \A a \in sp..(sp + n - 1) : Read(ram, a) = 0
                          /\ \A a \in (DOMAIN ram \cup DOMAIN snap[k]) \ {0} :
                                (a < sp \/ a >= sp + n) => Read(ram, a) = Read(snap[k], a)

\* a prologue with two locals has run over cells that held 8 and 7
C17_Witness ==
    \E k \in 1..Len(marks) :
        /\ IsFunction(k)
        /\ Number3(k) = 2
        /\ JustRan(<<k>>)
        /\ LCL(snap[k]) = SP(snap[k])
        /\ Read(snap[k], 260) = 8 /\ Read(snap[k], 261) = 7
        /\ Read(ram, 260) = 0 /\ Read(ram, 261) = 0
        /\ Read(ram, 262) = 6

\* the register that holds the base of a segment addressed through a pointer
BaseRegister(segment) ==
    CASE segment = s_local -> 1
      [] segment = s_argument -> 2
      [] segment = s_this -> 3
      [] segment = s_that -> 4

\* the cell that segment i names when the command k starts
SegmentCell(k) ==
    LET segment == Word2(k)
        i == Number3(k)
    IN  CASE segment \in {s_local, s_argument, s_this, s_that} ->
                Wrap(Read(snap[k], BaseRegister(segment)) + i)
          [] segment = s_temp -> 5 + i
          [] segment = s_pointer -> 3 + i
          [] segment = s_static ->
                SymbolTable(output)[_basename(filename) \o <<".">> \o Str(i)]

PushRan(k) ==
    /\ marks[k].kind = "C_PUSH"
    /\ Word2(k) \in AddressedSegments
    /\ JustRan(<<k>>)

\* C18: the code of push segment i pushes the content of RAM[base + i] for
\* local, argument, this and that, of RAM[5 + i] for temp, of the register
\* THIS or THAT for pointer 0 or 1 and of the variable Module.i for static; SP
\* grows by 1 and no cell changes but SP and the new top of the stack.
C18_PushAddressing ==
    \A k \in 1..Len(marks) :
        PushRan(k) =>
            LET sp == SP(snap[k])
            IN  /\ SP(ram) = sp + 1
                /\ Read(ram, sp) = Read(snap[k], SegmentCell(k))
                /\ \A a \in (DOMAIN ram \cup DOMAIN snap[k]) \ {0, sp} :
                      Read(ram, a) = Read(snap[k], a)

\* after push static 1 and push static 0, push pointer 1 has pushed THAT; before
\* it, static 0 pushed the word of the second variable
C18_Witness ==
    /\ Len(marks) > 3
    /\ marks[1].line = PushSegment(s_static, 1)
    /\ PushRan(3)
    /\ Read(ram, 256) = 61 /\ Read(ram, 257) = 62 /\ Read(ram, 258) = 4000
    /\ SP(ram) = 259

ValidIndex(k) ==
    CASE Word2(k) = s_pointer -> Number3(k) \in {0, 1}
      [] Word2(k) = s_temp -> Number3(k) \in 0..7
      [] OTHER -> TRUE

PopRan(k) ==
    /\ marks[k].kind = "C_POP"
    /\ Word2(k) \in AddressedSegments
    /\ ValidIndex(k)
    /\ JustRan(<<k>>)

\* C19: the code of pop segment i lowers SP by 1 and stores the popped value
\* in the cell that push segment i reads, whatever D held before, and writes
\* no other cell but R13.
C19_PopAddressing ==
    \A k \in 1..Len(marks) :
        PopRan(k) =>
            LET sp == SP(snap[k])
            IN  /\ SP(ram) = sp - 1
                /\ Read(ram, SegmentCell(k)) = Read(snap[k], sp - 1)
                /\ \A a \in (DOMAIN ram \cup DOMAIN snap[k]) \ {0, 13, SegmentCell(k)} :
                      Read(ram, a) = Read(snap[k], a)

\* a command followed on its line by a comment, and the command alone
HasInlineComment(line) == Contains(line, s_slashes) /\ ~StartsWith(line, s_slashes)

WithoutComment(line) ==
    LET i == CHOOSE j \in 1..(Len(line) - 1) :
                 /\ SubSeq(line, j, j + 1) = s_slashes
                 /\ \A h \in 1..(j - 1) : SubSeq(line, h, h + 1) # s_slashes
    IN  Strip(SubSeq(line, 1, i - 1))

\* what the driver does with a line, from the state it is in
Translation(line) ==
    Dispatch(filename, writers[1].arithmetic_counter, writers[1].call_counter, line)

\* C20: a command followed on its line by // and a comment is classified and
\* translated as the command alone, whatever the comment says; blank lines and
\* whole-line comments are never translated and add nothing to the output.
C20_InlineCommentsIgnored ==
    /\ (AtLine /\ HasInlineComment(Line)) =>
          /\ command_type(Line) = command_type(WithoutComment(Line))
          /\ Translation(Line) = Translation(WithoutComment(Line))
    /\ AtLine => ~skip_line(Line)
    /\ \A k \in 1..Len(marks) :
          marks[k].kind # "END" =>
              /\ ~skip_line(marks[k].line)
              /\ k <= Len(CommandLines(lines))
              /\ marks[k].line = CommandLines(lines)[k]

\* the base name of a path to a .vm file: the text after the last / without
\* the extension
BaseName(path) ==
    LET file == SplitLast(path, "/")
    IN  SubSeq(file, 1, Len(file) - Len(s_vm))

Scoped(name) == BaseName(writers[1].source) \o <<".">> \o name

\* C21: the module name that scopes user labels, static variables, function
\* labels and the idle-loop label is the base name of the source file (its
\* path without directories and extension), whatever path designates the file.
C21_ModuleName ==
    /\ writers[1].phase \in {"translate", "translated"} =>
          _basename(filename) = BaseName(writers[1].source)
    /\ \A k \in 1..Len(marks) :
          /\ marks[k].kind \in {"C_LABEL", "C_FUNCTION"} => Emitted(k)[1] = LI(Scoped(Word2(k)))
          /\ marks[k].kind = "C_GOTO" => Emitted(k)[1] = AI(Scoped(Word2(k)))
          /\ (marks[k].kind = "C_PUSH" /\ Word2(k) = s_static) =>
                Emitted(k)[1] = AI(Scoped(Str(Number3(k))))
          /\ marks[k].kind = "END" => Emitted(k)[1] = LI(Scoped(s_END))

\* the symbols loaded by the command k just before a jump, and the labels it
\* defines
JumpSymbols(k) ==
    {Emitted(k)[n].sym : n \in {m \in 1..(Len(Emitted(k)) - 1) :
        /\ Emitted(k)[m].t = "A"
        /\ Emitted(k)[m + 1].t = "C"
        /\ Emitted(k)[m + 1].jump # ""}}

LabelSymbols(k) == Labels(Emitted(k))

\* the predefined symbols of the assembler and the scratch symbols of the
\* translator
Reserved == DOMAIN symbol_table \cup {s_frame, s_retAddr}

NamesUserChoice(k) ==
    marks[k].kind \in {"C_LABEL", "C_GOTO", "C_IF", "C_FUNCTION", "C_CALL"}

\* C22: no symbol emitted for a user label, a function name or a call target
\* is a predefined symbol of the assembler or a scratch symbol of the
\* translator, and every symbol loaded for a jump is defined as a label in the
\* output of the module.
C22_NoCollisionWithAssemblerNames ==
    /\ \A k \in 1..Len(marks) :
          NamesUserChoice(k) =>
              (JumpSymbols(k) \cup LabelSymbols(k)) \cap Reserved = {}
    /\ writers[1].phase = "translated" =>
          \A k \in 1..Len(marks) : JumpSymbols(k) \subseteq Labels(output)

\* the comparison k, lt or gt, has run up to its conditional jump, the eighth
\* of its instructions
AtConditionalJump(k) ==
    /\ marks[k].kind = "C_ARITHMETIC"
    /\ Word1(k) \in {s_lt, s_gt}
    /\ mode = "run"
    /\ cur = k
    /\ pc = marks[k].from + 7

Top(k) == Read(snap[k], SP(snap[k]) - 1)
SecondFromTop(k) == Read(snap[k], SP(snap[k]) - 2)

\* the jump of the comparison k goes to its true label exactly when taken
JumpsToTrueLabel(k, taken) ==
    /\ rom[pc + 1].comp = "D"
    /\ A = fill_symbol_table(output, symbol_table)[TrueLabel(marks[k].counters_before[1])]
    /\ NextPc = (IF taken THEN A ELSE pc + 1)

\* C23: in the code of lt and gt the value tested by the conditional jump is
\* second-from-top - top; lt jumps to its true label when the value is greater
\* than zero, gt when it is less than zero.
C23_ComparisonDirection ==
    \A k \in 1..Len(marks) :
        AtConditionalJump(k) =>
            /\ D = Wrap(SecondFromTop(k) - Top(k))
            /\ JumpsToTrueLabel(k, IF Word1(k) = s_lt THEN Signed(D) > 0 ELSE Signed(D) < 0)

\* C23 as the code has it: the value tested is top - second-from-top; lt jumps
\* to its true label when the value is greater than zero, gt when it is less
\* than zero.
C23_ComparisonDirectionOfCode ==
    \A k \in 1..Len(marks) :
        AtConditionalJump(k) =>
            /\ D = Wrap(Top(k) - SecondFromTop(k))
            /\ JumpsToTrueLabel(k, IF Word1(k) = s_lt THEN Signed(D) > 0 ELSE Signed(D) < 0)

\* lt is at its jump with 1 under 2 on the stack: the value tested is 1 and
\* the jump is taken
C23_Witness ==
    \E k \in 1..Len(marks) :
        /\ AtConditionalJump(k)
        /\ Word1(k) = s_lt
        /\ SecondFromTop(k) = 1 /\ Top(k) = 2
        /\ D = 1
        /\ NextPc = A /\ A # pc + 1

\* the command k of the run i is a comparison, and the labels its text defines
ComparisonOf(i, k) ==
    /\ writers[i].marks[k].kind = "C_ARITHMETIC"
    /\ Split(writers[i].marks[k].line)[1] \in {s_eq, s_lt, s_gt}

ComparisonLabels(i, k) ==
    Labels(SubSeq(Written(i), writers[i].marks[k].first + 1, writers[i].marks[k].last))

\* C24: a comparison defines two labels, both ending with the value the
\* arithmetic counter had and both prefixed with the module name; two
\* comparisons of one module share no label, and neither do comparisons of two
\* modules with different names.
C24_ComparisonLabels ==
    \A i \in DOMAIN writers : \A k \in 1..Len(writers[i].marks) :
        ComparisonOf(i, k) =>
            /\ Cardinality(ComparisonLabels(i, k)) = 2
            /\ \A l \in ComparisonLabels(i, k) :
                  /\ EndsWith(l, Str(writers[i].marks[k].counters_before[1]))
                  /\ StartsWith(l, Module(i) \o <<".">>)
            /\ \A h \in 1..Len(writers[i].marks) :
                  (h # k /\ ComparisonOf(i, h)) =>
                      ComparisonLabels(i, k) \cap ComparisonLabels(i, h) = {}
            /\ \A j \in DOMAIN writers : \A h \in 1..Len(writers[j].marks) :
                  (Opened(j) /\ Module(i) # Module(j) /\ ComparisonOf(j, h)) =>
                      ComparisonLabels(i, k) \cap ComparisonLabels(j, h) = {}

arithmetic_counter == writers[1].arithmetic_counter
call_counter == writers[1].call_counter

\* the labels an operation of the CodeWriter defined
OperationLabels(k) == Labels(marks[k].out)

\* C25: a new CodeWriter has both counters at 0; under any sequence of its
\* public operations, reset among them, no counter decreases and no two
\* operations define a label text with the same counter value;
\* write_arithmetic adds 1 to arithmetic_counter, write_call adds 1 to
\* call_counter and every other emitting operation leaves both as they are.
C25_CounterInvariant ==
    /\ [][/\ arithmetic_counter' >= arithmetic_counter
          /\ call_counter' >= call_counter]_vars
    /\ [](Len(marks) = 0 => (arithmetic_counter = 0 /\ call_counter = 0))
    /\ [](\A k \in 1..Len(marks) :
            /\ marks[k].kind = "write_arithmetic" =>
                  marks[k].counters = <<marks[k].counters_before[1] + 1,
                                        marks[k].counters_before[2]>>
            /\ marks[k].kind = "write_call" =>
                  marks[k].counters = <<marks[k].counters_before[1],
                                        marks[k].counters_before[2] + 1>>
            /\ marks[k].kind \notin {"write_arithmetic", "write_call", "reset"} =>
                  marks[k].counters = marks[k].counters_before
            /\ \A h \in 1..Len(marks) :
                  (h # k /\ marks[k].kind = marks[h].kind
                   /\ marks[k].kind \in {"write_arithmetic", "write_call"}) =>
                      OperationLabels(k) \cap OperationLabels(h) = {})

\* C26: arg1 fails with an error when the current line is classified as a
\* return; arg2 fails with an error unless it is classified as a push, pop,
\* function or call (so on a label, goto, if-goto or arithmetic command); a
\* request that fails leaves the cursor of the parser where it was.
C26_OperandRequestsChecked ==
    /\ [](\A k \in 1..Len(marks) :
            /\ (marks[k].kind = "arg1" /\ command_type(marks[k].line) = "C_RETURN") =>
                  marks[k].err # ""
            /\ (marks[k].kind = "arg2"
                /\ command_type(marks[k].line)
                      \notin {"C_PUSH", "C_POP", "C_FUNCTION", "C_CALL"}) =>
                  marks[k].err # "")
    /\ [][(Len(marks') = Len(marks) + 1 /\ marks'[Len(marks')].err # "") =>
             writers'[1].current_idx = writers[1].current_idx]_vars

\* arg2 has failed on a label line with a third word and arg1 on a return
\* followed by a comment, the cursor staying on each line
C26_Witness ==
    /\ writers[1].phase = "parser"
    /\ Len(marks) = 2
    /\ marks[1].kind = "arg1" /\ marks[1].line = Commented(s_return, s_done)
    /\ marks[1].err = "AssertionError" /\ marks[1].at = 0
    /\ marks[2].kind = "arg2" /\ marks[2].line = Join(<<s_label, s_L, <<"3">>>>)
    /\ marks[2].err = "AssertionError" /\ marks[2].at = 1
    /\ writers[1].current_idx = 1

\* the function command that encloses the command k (0 outside any function)
EnclosingFunction(k) ==
    LET before == {j \in 1..(k - 1) : marks[j].kind = "C_FUNCTION"}
    IN  IF before = {} THEN 0 ELSE CHOOSE j \in before : \A i \in before : i <= j

\* the label text of a label command, and the symbol a goto or if-goto loads
LabelText(k) == Emitted(k)[Len(Emitted(k))].sym
TargetText(k) == Emitted(k)[Len(Emitted(k)) - 1].sym

\* the lines of the output that define a label
Definitions == {n \in 1..Len(output) : output[n].t = "L"}

\* C27: a label name declared in two different functions of a module is
\* emitted as two different label texts, a goto or if-goto is emitted with the
\* label text of the declaration in its own function, and no label text is
\* defined twice in the output of the module.
C27_FunctionScopedLabels ==
    /\ \A k \in 1..Len(marks) : \A h \in 1..Len(marks) :
          (/\ marks[k].kind = "C_LABEL"
           /\ marks[h].kind \in {"C_LABEL", "C_GOTO", "C_IF"}
           /\ Word2(k) = Word2(h)) =>
              /\ (marks[h].kind = "C_LABEL" /\ EnclosingFunction(k) # EnclosingFunction(h)) =>
                    LabelText(k) # LabelText(h)
              /\ marks[h].kind \in {"C_GOTO", "C_IF"} =>
                    (TargetText(h) = LabelText(k)
                        <=> EnclosingFunction(h) = EnclosingFunction(k))
    /\ \A n \in Definitions : \A m \in Definitions :
          n # m => output[n].sym # output[m].sym

OrderingRan(k) ==
    /\ marks[k].kind = "C_ARITHMETIC"
    /\ Word1(k) \in {s_lt, s_gt}
    /\ JustRan(<<k>>)

\* C28: for all signed 16-bit words x (second from top) and y (top), also when
\* their difference does not fit in 16 bits, lt leaves -1 exactly when x < y
\* and gt leaves -1 exactly when x > y, and 0 otherwise.
C28_ComparisonsOverFullRange ==
    \A k \in 1..Len(marks) :
        OrderingRan(k) =>
            Read(ram, SP(ram) - 1) =
                (IF Holds(Word1(k), Signed(SecondFromTop(k)), Signed(Top(k)))
                 THEN AllOnes ELSE 0)

Declares(k) == marks[k].kind = "C_LABEL"

\* the user labels and function names are admissible and no user label is
\* declared twice
ValidNames ==
    /\ \A k \in 1..Len(marks) :
          marks[k].kind \in {"C_LABEL", "C_FUNCTION"} => AdmissibleLabel(Word2(k))
    /\ \A k \in 1..Len(marks) : \A h \in 1..Len(marks) :
          (Declares(k) /\ Declares(h) /\ k # h) => Word2(k) # Word2(h)

\* C29: with admissible user label and function names, every label text is
\* defined at most once in the output of a module: the text of a user label
\* is never one that the idle loop, a comparison, a function or a call
\* defines, and no two commands define the same label text.
C29_GeneratedLabelsNeverClash ==
    ValidNames =>
        \A k \in 1..Len(marks) : \A h \in 1..Len(marks) :
            k # h => LabelSymbols(k) \cap LabelSymbols(h) = {}

\* C30: every computation line of the translator's output has a comp mnemonic
\* and a jump mnemonic that are keys of the assembler's tables.
C30_OutputIsAssemblable ==
    \A n \in 1..Len(output) : output[n].t = "C" => Encodable(output[n])

====
